---- MODULE Spec2Model ----
(***************************************************************************)
(* goop: a reverse proxy in front of several LLM providers.                *)
(*                                                                         *)
(* The module models the parts of the program, each with its own            *)
(* specification over the same variables:                                  *)
(*   SpecAuth    the HTTP mux of main.go with the API-key middleware       *)
(*   SpecProxy   the native pass-through pipeline (engineMiddleware, the   *)
(*               adapters' IsAllowedPath / ModifyRequest, the SigV4        *)
(*               signer, the reverse proxy) and the OpenAI-compatible      *)
(*               chat-completion pipeline (selectEngine, the per-provider  *)
(*               transformers and their streaming loops)                   *)
(*   SpecAudit   audit.Response: the goroutine that scans the provider's   *)
(*               body into a pipe, the reverse proxy's copy loop and the   *)
(*               post-response callback; SpecAuditLive adds the fairness   *)
(*               of the goroutines                                         *)
(*   SpecTransform  the translation of chat-completion bodies for Bedrock  *)
(*               and OpenAI, and buildThinkingConfig                       *)
(*   SpecModels  BedrockEngine.ListModels and its cache; SpecListers has   *)
(*               concurrent callers of ListModels                          *)
(*   SpecCache   EngineCache: concurrent GetEngine calls, the passing of   *)
(*               time and the periodic InvalidateCache                     *)
(*   SpecAzure   AzureOpenAIEngine: its construction per request, the      *)
(*               health-check goroutine, selectLeastLoadedBackend and      *)
(*               ModifyRequest                                             *)
(*   SpecChain   the order in which the mux, the middlewares and the final *)
(*               handler of NewProxyHandler and NewHandler are entered     *)
(*   SpecLocks   the locking of GetEngine, InvalidateCache, ClearCache and *)
(*               ListModels on ec.mutex and cachedModelsLock;              *)
(*               SpecLocksLive adds the fairness of the goroutines         *)
(***************************************************************************)
EXTENDS Integers, Sequences, FiniteSets, TLC

VARIABLES
    AuthMiddleware,  \* main.go App.AuthMiddleware is non-nil
    disableAuth,     \* environment variable GOOP_DISABLE_AUTH is true
    authResp,        \* what the mux answered to the last request
    lastUsedQueue,   \* key ids with a pending `go s.updateLastUsed`
    Healthy,         \* main.go App.Healthy
    srv,             \* the http.Server: "serving", "unhealthy" (shutdown signal
                     \* taken, listener still open) or "closed"
    Engines,         \* utils.Config.Engines: the configuration of each engine
    revision,        \* the revision of the program that runs: "current" or "legacy"
    pc,              \* where the request in flight is
    req,             \* the request in flight
    bound,           \* the adapter bound to the request ("none": not bound)
    resp,            \* what the client has been answered
    wire,            \* the requests sent to providers for the request in flight
    upresp,          \* the provider's response being relayed (compat mode)
    respBody,        \* audit.Response: the provider's body the goroutine scans
    scanner,         \* audit.Response: where the goroutine is
    pipe,            \* audit.Response: the io.Pipe between goroutine and proxy
    copy,            \* httputil.ReverseProxy: its loop copying the pipe to the client
    client,          \* the client's connection and the bytes flushed to it
    callbacks,       \* how often eng.ResponseCallback has been invoked
    chat,            \* the JSON body of the chat-completion request being translated
    transformed,     \* what the translation made of it
    cachedModels,    \* bedrock.go cachedModels and whether cachedModelsTime is recent
    listing,         \* the call of ListModels being answered
    listers,         \* the calls of ListModels in progress, one goroutine each
    clock,           \* the time, in periods of the cache's cleanup ticker
    cache,           \* EngineCache.cache
    mutex,           \* EngineCache.mutex: 0, or the goroutine holding the write lock
    calls,           \* the calls of GetEngine in progress, one goroutine each
    constructed,     \* per cache key, the times createEngine made an adapter
    azure,           \* per native request to /azure: the AzureOpenAIEngine made
                     \* for it, its health-check goroutine and the request
    chain,           \* the handlers a request has entered and those still ahead
    rwmutex,         \* ec.mutex and cachedModelsLock: readers, writer, waiting
    tasks            \* the goroutines calling GetEngine, InvalidateCache,
                     \* ClearCache and ListModels: the call and where it is

authVars == <<AuthMiddleware, disableAuth, authResp, lastUsedQueue, Healthy, srv>>

proxyVars == <<Engines, revision, pc, req, bound, resp, wire, upresp>>

auditVars == <<respBody, scanner, pipe, copy, client, callbacks>>

xformVars == <<chat, transformed>>

modelVars == <<cachedModels, listing, listers>>

cacheVars == <<clock, cache, mutex, calls, constructed>>

azureVars == <<azure>>

chainVars == <<chain>>

lockVars == <<rwmutex, tasks>>

sideVars == <<auditVars, xformVars, modelVars, cacheVars, azureVars, chainVars, lockVars>>

vars == <<AuthMiddleware, disableAuth, authResp, lastUsedQueue, Healthy, srv,
          Engines, revision, pc, req, bound, resp, wire, upresp,
          respBody, scanner, pipe, copy, client, callbacks, chat, transformed,
          cachedModels, listing, listers, clock, cache, mutex, calls, constructed,
          azure, chain, rwmutex, tasks>>

\* No provider response is being audited.
AuditIdle ==
    /\ respBody = [len |-> 0, pos |-> 0, buf |-> 0, closed |-> FALSE, ended |-> "no"]
    /\ scanner = "idle"
    /\ pipe = "open"
    /\ copy = [pc |-> "idle", buf |-> <<>>]
    /\ client = [connected |-> TRUE, received |-> <<>>]
    /\ callbacks = 0

\* No request is being translated.
TransformIdle ==
    /\ chat = [model |-> <<>>]
    /\ transformed = [op |-> "none"]

\* EngineCache: the cache of adapters OpenAIProxyHandler keeps.  A key is
\* engineType + ":" + model; an adapter instance is told from the others
\* of its key by its serial number (0: none).
MaxCallers == 2

MaxClock == 4

\* EngineCache.cacheTTL, 30 minutes, in periods of the cleanup ticker (10
\* minutes).
cacheTTL == 3

Callers == 1..MaxCallers

CacheKey(engineType, model) == <<engineType, ":">> \o model

CacheKeys == {CacheKey("openai", <<"gpt-", "4o">>), CacheKey("bedrock", <<"claude">>)}

NoEntry == [exists |-> FALSE, Engine |-> 0, CreatedAt |-> 0]

NoCall == [pc |-> "idle", key |-> <<>>, missed |-> FALSE, arrived |-> 0,
           Engine |-> 0, err |-> FALSE, returned |-> 0]

\* NewEngineCache: an empty map; no call in progress.
CacheIdle ==
    /\ clock = 0
    /\ cache = [k \in CacheKeys |-> NoEntry]
    /\ mutex = 0
    /\ calls = [c \in Callers |-> NoCall]
    /\ constructed = [k \in CacheKeys |-> <<>>]

NoLister == [pc |-> "idle", fetched |-> FALSE, err |-> FALSE, models |-> <<>>]

\* No model list has been fetched and none is asked for.
ModelsIdle ==
    /\ cachedModels = [nil |-> TRUE, models |-> <<>>, fresh |-> FALSE, by |-> 0]
    /\ listing = [op |-> "none"]
    /\ listers = [c \in Callers |-> NoLister]

\* AzureOpenAIEngine: the backends of the configuration and the native
\* requests to /azure, each of which gets an engine of its own.
MaxBackends == 2

MaxRequests == 2

Backends == 1..MaxBackends

Requests == 1..MaxRequests

NoBackend == [IsActive |-> FALSE, Connections |-> 0]

NoRequest == [pc |-> "idle",
              backends |-> [b \in Backends |-> NoBackend],
              probe |-> [pc |-> "none", b |-> 0, ok |-> FALSE],
              i |-> 0, selected |-> 0, minConnections |-> 0,
              seen |-> [b \in Backends |-> FALSE],
              backend |-> 0]

\* No request to /azure has arrived.
AzureIdle == azure = [r \in Requests |-> NoRequest]

NoRequestInfo == [path |-> "native", key |-> FALSE, OPTIONS |-> FALSE,
                  broken |-> FALSE, engine |-> "ok"]

\* No request is on its way through the handlers.
ChainIdle ==
    chain = [pc |-> "idle", r |-> NoRequestInfo, handler |-> <<>>, ran |-> <<>>,
             status |-> 0, by |-> "none"]

\* The goroutines that call into the engine cache and the model-list cache.
MaxTasks == 2

Tasks == 1..MaxTasks

Mutexes == {"ec.mutex", "cachedModelsLock"}

\* No lock is held or waited for and no call is in progress.
LocksIdle ==
    /\ rwmutex = [m \in Mutexes |-> [readers |-> {}, writer |-> 0, waiting |-> {}]]
    /\ tasks = [t \in Tasks |-> [op |-> "none", pc |-> "idle"]]

SideIdle ==
    AuditIdle /\ TransformIdle /\ ModelsIdle /\ CacheIdle /\ AzureIdle /\ ChainIdle /\ LocksIdle

(***************************************************************************)
(* Strings of the Authorization header.  A string is a sequence of runs:   *)
(* a run is n >= 1 characters of one class.  Class "word" is a scheme      *)
(* word (v is its spelling), "hex" a run of hexadecimal digits (v tells    *)
(* different digit strings of one length apart), "nonhex" a run of         *)
(* printable characters that are not hexadecimal digits, and SP, HT, CR,   *)
(* LF the four white-space characters the code names.                      *)
(***************************************************************************)
Run(c, n, v) == [c |-> c, n |-> n, v |-> v]

Whitespace == {"SP", "HT", "CR", "LF"}

RECURSIVE StrLen(_)
StrLen(s) == IF s = <<>> THEN 0 ELSE s[1].n + StrLen(Tail(s))

ContainsAny(s, chars) == \E i \in DOMAIN s : s[i].c \in chars

RECURSIVE TrimLeft(_)
TrimLeft(s) ==
    IF s # <<>> /\ s[1].c \in Whitespace THEN TrimLeft(Tail(s)) ELSE s

RECURSIVE TrimRight(_)
TrimRight(s) ==
    IF s # <<>> /\ s[Len(s)].c \in Whitespace
    THEN TrimRight(SubSeq(s, 1, Len(s) - 1))
    ELSE s

TrimSpace(s) == TrimRight(TrimLeft(s))

Lowered(word) ==
    CASE word \in {"Bearer", "BEARER", "bearer"} -> "bearer"
      [] word \in {"Basic", "basic"} -> "basic"
      [] OTHER -> word

ToLower(s) ==
    [i \in DOMAIN s |->
        IF s[i].c = "word" THEN Run("word", s[i].n, Lowered(s[i].v)) ELSE s[i]]

\* strings.SplitN(s, " ", 2): cut at the first space character.
SplitN2(s) ==
    IF ~ContainsAny(s, {"SP"})
    THEN <<s>>
    ELSE LET i == CHOOSE k \in DOMAIN s :
                    s[k].c = "SP" /\ \A j \in 1..(k - 1) : s[j].c # "SP"
             rest == IF s[i].n > 1
                     THEN <<Run("SP", s[i].n - 1, "")>>
                     ELSE <<>>
         IN  <<SubSeq(s, 1, i - 1), rest \o SubSeq(s, i + 1, Len(s))>>

\* hex.DecodeString succeeds: even length, hexadecimal digits only.
HexDecodeOk(s) == StrLen(s) % 2 = 0 /\ \A i \in DOMAIN s : s[i].c = "hex"

(***************************************************************************)
(* API keys.  generateAPIKey returns 32 random bytes in hexadecimal, so    *)
(* every stored key is KeyLen hexadecimal digits; the table stores the     *)
(* SHA-256 of the key, modelled as an injective tag.                       *)
(***************************************************************************)
KeyLen == 64

MaxTokenLen == 100

generateAPIKey(v) == <<Run("hex", KeyLen, v)>>

hashAPIKey(key) == <<"sha256", key>>

\* Rows of table api_keys: an active user key, an active admin key and a
\* deactivated key.
api_keys ==
    { [id |-> 1, key_hash |-> hashAPIKey(generateAPIKey(1)),
       role |-> "user", is_active |-> TRUE],
      [id |-> 2, key_hash |-> hashAPIKey(generateAPIKey(2)),
       role |-> "admin", is_active |-> TRUE],
      [id |-> 3, key_hash |-> hashAPIKey(generateAPIKey(3)),
       role |-> "user", is_active |-> FALSE] }

NoKey == [err |-> TRUE, id |-> 0, role |-> "none"]

\* A mis-translation of ValidateAPIKey that accepts whatever it is given.
ValidateAPIKey_acceptAll(key, db) == [err |-> FALSE, id |-> 1, role |-> "user"]

\* Service.ValidateAPIKey; db is "up" or "down" (the query fails).
ValidateAPIKey(key, db) ==
    IF TrimSpace(key) = <<>> THEN NoKey
    ELSE IF StrLen(key) # KeyLen THEN NoKey
    ELSE IF ~HexDecodeOk(key) THEN NoKey
    ELSE IF db = "down" THEN NoKey
    ELSE LET rows == {r \in api_keys :
                        r.key_hash = hashAPIKey(key) /\ r.is_active}
         IN  IF rows = {} THEN NoKey
             ELSE LET r == CHOOSE x \in rows : TRUE
                  IN  [err |-> FALSE, id |-> r.id, role |-> r.role]

\* Middleware.extractAndValidateAPIKey on the Authorization header value.
extractAndValidateAPIKey(authHeader, db) ==
    IF authHeader = <<>> THEN NoKey
    ELSE IF ContainsAny(authHeader, {"CR", "LF"}) THEN NoKey
    ELSE LET parts == SplitN2(authHeader) IN
         IF Len(parts) # 2 \/ ToLower(parts[1]) # <<Run("word", 6, "bearer")>>
         THEN NoKey
         ELSE LET token == TrimSpace(parts[2]) IN
              IF token = <<>> THEN NoKey
              ELSE IF StrLen(token) > MaxTokenLen THEN NoKey
              ELSE IF ContainsAny(token, {"CR", "LF", "HT"}) THEN NoKey
              ELSE ValidateAPIKey(token, db)

\* http.Error(w, msg, code): the message and a newline.
httpError(msg, code) == [status |-> code, body |-> <<msg, "\n">>]

\* Middleware.RequireAuth: what the middleware itself writes (status 0:
\* nothing), whether it calls next, and the key it put in the context.
RequireAuth(authHeader, db, disabled) ==
    IF disabled
    THEN [status |-> 0, body |-> <<>>, next |-> TRUE, key |-> 0]
    ELSE LET apiKey == extractAndValidateAPIKey(authHeader, db) IN
         IF apiKey.err
         THEN httpError("Unauthorized", 401) @@ [next |-> FALSE, key |-> 0]
         ELSE [status |-> 0, body |-> <<>>, next |-> TRUE, key |-> apiKey.id]

\* A mis-translation of RequireAdminAuth that does not look at the role.
RequireAdminAuth_anyRole(authHeader, db, disabled) ==
    RequireAuth(authHeader, db, disabled)

\* Middleware.RequireAdminAuth.
RequireAdminAuth(authHeader, db, disabled) ==
    IF disabled
    THEN [status |-> 0, body |-> <<>>, next |-> TRUE, key |-> 0]
    ELSE LET apiKey == extractAndValidateAPIKey(authHeader, db) IN
         IF apiKey.err
         THEN httpError("Unauthorized", 401) @@ [next |-> FALSE, key |-> 0]
         ELSE IF apiKey.role # "admin"
         THEN httpError("Forbidden: admin role required", 403)
                  @@ [next |-> FALSE, key |-> apiKey.id]
         ELSE [status |-> 0, body |-> <<>>, next |-> TRUE, key |-> apiKey.id]

(***************************************************************************)
(* The requests the mux is offered.  A request names its path and the      *)
(* pieces of its Authorization header: form "absent" (no header), "bare"   *)
(* (a scheme word and nothing else) or "full" (scheme word, one space,     *)
(* leading padding, the token, trailing padding).                          *)
(***************************************************************************)
MaxPad == 1

Hex(n) == IF n = 0 THEN <<>> ELSE <<Run("hex", n, 0)>>

Schemes == {"Bearer", "bearer", "BEARER", "Basic"}

SchemeLen(word) == IF Lowered(word) = "basic" THEN 5 ELSE 6

Pads ==
    {<<>>, <<Run("HT", 1, "")>>} \cup {<<Run("SP", k, "")>> : k \in 1..MaxPad}

Tokens ==
    {generateAPIKey(v) : v \in 1..4}
    \cup {Hex(0), Hex(3), Hex(KeyLen - 1), Hex(KeyLen + 1),
          Hex(MaxTokenLen), Hex(MaxTokenLen + 1)}
    \cup {Hex(KeyLen - 1) \o <<Run("nonhex", 1, "")>>,
          <<Run("nonhex", KeyLen, "")>>,
          <<Run("nonhex", MaxTokenLen + 1, "")>>}
    \cup {Hex(KeyLen \div 2) \o <<Run(c, 1, "")>> \o Hex(KeyLen - 1 - KeyLen \div 2)
            : c \in Whitespace}

AuthHeader(rq) ==
    CASE rq.form = "absent" -> <<>>
      [] rq.form = "bare" -> <<Run("word", SchemeLen(rq.scheme), rq.scheme)>>
      [] OTHER -> <<Run("word", SchemeLen(rq.scheme), rq.scheme), Run("SP", 1, "")>>
                    \o rq.lead \o rq.token \o rq.trail

AuthRequests ==
    {[form |-> "absent", scheme |-> "", lead |-> <<>>, token |-> <<>>, trail |-> <<>>]}
    \cup {[form |-> "bare", scheme |-> w, lead |-> <<>>, token |-> <<>>,
           trail |-> <<>>] : w \in Schemes}
    \cup [form : {"full"}, scheme : Schemes, lead : Pads, token : Tokens,
          trail : Pads]

ProxyPaths == {"/bedrock/model/m/invoke", "/openai-proxy/v1/chat/completions"}

AdminPaths == {"/admin/keys", "/admin/keys/"}

OpenPaths == {"/healthz", "/metrics"}

NoAuthResp ==
    [path |-> "",
     req |-> [form |-> "none", scheme |-> "", lead |-> <<>>, token |-> <<>>,
              trail |-> <<>>],
     status |-> 0, body |-> <<>>,
     next |-> FALSE, upstream |-> FALSE, key |-> 0, db |-> ""]

AuthIdle ==
    /\ authResp = NoAuthResp
    /\ lastUsedQueue = {}

\* main.go InitHealth and StartServer: the server listens and App.Healthy
\* is 1.
Serving == Healthy = 1 /\ srv = "serving"

\* The listener accepts requests.
Listening == srv # "closed"

healthHandler_ready(healthy) ==
    [status |-> 200, body |-> <<"{\"status\":\"healthy\"}", "\n">>]

\* App.healthHandler: 503 without a body when App.Healthy is 0, else 200 and
\* the JSON encoding of {Status: "healthy"}, which ends with a newline.
healthHandler(healthy) ==
    IF healthy = 0 THEN [status |-> 503, body |-> <<>>]
    ELSE [status |-> 200, body |-> <<"{\"status\":\"healthy\"}", "\n">>]

\* main.go InitAuth / InitRouter: the middleware is installed unless auth is
\* disabled by configuration or there is no database.  Config.Auth.Disabled
\* is GOOP_DISABLE_AUTH as read at startup (config.go getDefaultConfig), so
\* with the variable set the middleware is not installed; the earlier
\* InitAuth looked at the database only.
InitAuth ==
    /\ AuthMiddleware \in BOOLEAN
    /\ disableAuth \in BOOLEAN
    /\ revision \in {"current", "legacy"}
    /\ revision = "current" => ~(AuthMiddleware /\ disableAuth)
    /\ AuthIdle
    /\ Serving
    /\ Engines = [e \in {"openai", "azure", "bedrock", "gemini", "vertex"} |-> "ok"]
    /\ pc = "idle"
    /\ req = [mode |-> "none"]
    /\ bound = "none"
    /\ resp = [status |-> 0, body |-> <<>>]
    /\ wire = <<>>
    /\ upresp = [status |-> 0, contentType |-> "", body |-> "", n |-> 0, last |-> ""]
    /\ SideIdle

\* A request to "/" or "/openai-proxy/", registered behind RequireAuth.  The
\* proxy handler, when it runs, answers and contacts the provider.
ServeProxy ==
    /\ AuthMiddleware
    /\ authResp = NoAuthResp
    /\ Listening
    /\ \E path \in ProxyPaths, rq \in AuthRequests, db \in {"up", "down"} :
         LET r == RequireAuth(AuthHeader(rq), db, disableAuth) IN
         /\ authResp' = [path |-> path, req |-> rq,
                         status |-> IF r.next THEN 200 ELSE r.status,
                         body |-> r.body, next |-> r.next, upstream |-> r.next,
                         key |-> r.key, db |-> db]
         /\ lastUsedQueue' = IF r.key # 0 THEN lastUsedQueue \cup {r.key}
                             ELSE lastUsedQueue
    /\ UNCHANGED <<AuthMiddleware, disableAuth, Healthy, srv, proxyVars, sideVars>>

\* A request to "/admin/keys", registered behind RequireAdminAuth.
ServeAdmin ==
    /\ AuthMiddleware
    /\ authResp = NoAuthResp
    /\ Listening
    /\ \E path \in AdminPaths, rq \in AuthRequests, db \in {"up", "down"} :
         LET r == RequireAdminAuth(AuthHeader(rq), db, disableAuth) IN
         /\ authResp' = [path |-> path, req |-> rq,
                         status |-> IF r.next THEN 200 ELSE r.status,
                         body |-> r.body, next |-> r.next, upstream |-> FALSE,
                         key |-> r.key, db |-> db]
         /\ lastUsedQueue' = IF r.key # 0 THEN lastUsedQueue \cup {r.key}
                             ELSE lastUsedQueue
    /\ UNCHANGED <<AuthMiddleware, disableAuth, Healthy, srv, proxyVars, sideVars>>

\* "/healthz" and "/metrics" are registered without middleware.
ServeOpen ==
    /\ authResp = NoAuthResp
    /\ Listening
    /\ \E path \in OpenPaths, rq \in AuthRequests :
         authResp' =
            IF path = "/healthz"
            THEN [NoAuthResp EXCEPT !.path = path, !.req = rq,
                                    !.status = healthHandler(Healthy).status,
                                    !.body = healthHandler(Healthy).body]
            ELSE [NoAuthResp EXCEPT !.path = path, !.req = rq, !.status = 200]
    /\ UNCHANGED <<AuthMiddleware, disableAuth, Healthy, srv, lastUsedQueue, proxyVars, sideVars>>

\* The earlier InitRouter: without the middleware the two proxy handlers
\* are registered bare, and "/" takes the admin paths too, where
\* engineMiddleware knows no engine "admin".
ServeUnprotected ==
    /\ ~AuthMiddleware
    /\ revision = "legacy"
    /\ authResp = NoAuthResp
    /\ Listening
    /\ \E path \in ProxyPaths \cup AdminPaths, rq \in AuthRequests :
         authResp' =
            IF path \in ProxyPaths
            THEN [NoAuthResp EXCEPT !.path = path, !.req = rq, !.status = 200,
                                    !.next = TRUE, !.upstream = TRUE]
            ELSE [NoAuthResp EXCEPT !.path = path, !.req = rq, !.status = 404,
                                    !.body = <<"Engine not available", "\n">>]
    /\ UNCHANGED <<AuthMiddleware, disableAuth, Healthy, srv, lastUsedQueue, proxyVars, sideVars>>

\* Without the middleware nothing else is registered: the mux answers 404.
ServeNotFound ==
    /\ ~AuthMiddleware
    /\ revision = "current"
    /\ authResp = NoAuthResp
    /\ Listening
    /\ \E path \in ProxyPaths \cup AdminPaths, rq \in AuthRequests :
         authResp' = [NoAuthResp EXCEPT !.path = path, !.req = rq, !.status = 404,
                                        !.body = <<"404 page not found", "\n">>]
    /\ UNCHANGED <<AuthMiddleware, disableAuth, Healthy, srv, lastUsedQueue, proxyVars, sideVars>>

\* The goroutine started by ValidateAPIKey.
updateLastUsed ==
    /\ \E keyID \in lastUsedQueue : lastUsedQueue' = lastUsedQueue \ {keyID}
    /\ UNCHANGED <<AuthMiddleware, disableAuth, Healthy, srv, authResp, proxyVars, sideVars>>

\* The response has been delivered; the server takes the next request.
AuthDone ==
    /\ authResp # NoAuthResp
    /\ authResp' = NoAuthResp
    /\ UNCHANGED <<AuthMiddleware, disableAuth, Healthy, srv, lastUsedQueue, proxyVars, sideVars>>

\* StartServer takes SIGINT or SIGTERM from the channel: it stores 0 in
\* App.Healthy and goes on to srv.Shutdown.
ShutdownSignal ==
    /\ srv = "serving"
    /\ Healthy' = 0
    /\ srv' = "unhealthy"
    /\ UNCHANGED <<AuthMiddleware, disableAuth, authResp, lastUsedQueue,
                   proxyVars, sideVars>>

\* srv.Shutdown closes the listener; requests being served are completed.
Shutdown ==
    /\ srv = "unhealthy"
    /\ srv' = "closed"
    /\ UNCHANGED <<AuthMiddleware, disableAuth, authResp, lastUsedQueue, Healthy,
                   proxyVars, sideVars>>

\* srv.ListenAndServe returns an error: StartServer returns it and the
\* process ends without a signal.
ServerError ==
    /\ srv = "serving"
    /\ srv' = "closed"
    /\ UNCHANGED <<AuthMiddleware, disableAuth, authResp, lastUsedQueue, Healthy,
                   proxyVars, sideVars>>

NextAuth ==
    \/ ServeProxy
    \/ ServeAdmin
    \/ ServeOpen
    \/ ServeUnprotected
    \/ ServeNotFound
    \/ updateLastUsed
    \/ AuthDone
    \/ ShutdownSignal
    \/ Shutdown
    \/ ServerError

SpecAuth == InitAuth /\ [][NextAuth]_vars

(***************************************************************************)
(* Claims about the API-key middleware.                                    *)
(***************************************************************************)
ProtectedPath(r) == AuthMiddleware /\ r.path \in ProxyPaths \cup AdminPaths

BearerRequest(r) == r.req.form = "full" /\ Lowered(r.req.scheme) = "bearer"

\* The token is not a well-formed key: its length is not KeyLen, it has a
\* character that is no hexadecimal digit, it has CR, LF or HT, or it is
\* longer than MaxTokenLen.
MalformedToken(token) ==
    \/ StrLen(token) # KeyLen
    \/ \E i \in DOMAIN token : token[i].c # "hex"
    \/ ContainsAny(token, {"CR", "LF", "HT"})
    \/ StrLen(token) > MaxTokenLen

Rejected401(r) ==
    /\ r.status = 401
    /\ r.body # <<>> /\ r.body[1] = "Unauthorized"
    /\ ~r.next
    /\ ~r.upstream

\* C2 as stated: every request to a protected path whose bearer token is
\* malformed is answered 401 "Unauthorized" and reaches neither the
\* protected handler nor a provider.  Refuted: with GOOP_DISABLE_AUTH set
\* the middleware calls the handler without looking at the header.
C2_AsStated ==
    (ProtectedPath(authResp) /\ BearerRequest(authResp)
        /\ MalformedToken(authResp.req.token))
    => Rejected401(authResp)

\* C2, amended: unless the GOOP_DISABLE_AUTH override is set, every request
\* to a protected path whose bearer token is malformed is answered 401
\* "Unauthorized" and reaches neither the protected handler nor a provider.
C2_MalformedBearerRejected ==
    (ProtectedPath(authResp) /\ ~disableAuth /\ BearerRequest(authResp)
        /\ MalformedToken(authResp.req.token))
    => Rejected401(authResp)

\* A bearer token of KeyLen characters, one of them no hexadecimal digit,
\* sent to a proxy path with authentication on, has been answered 401.
C2_Witness ==
    /\ ProtectedPath(authResp) /\ ~disableAuth /\ BearerRequest(authResp)
    /\ authResp.path \in ProxyPaths
    /\ authResp.req.token = Hex(KeyLen - 1) \o <<Run("nonhex", 1, "")>>
    /\ authResp.status = 401

\* The request presents the active key of role user as a bearer token and
\* the key store answers.
UserKeyPresented(r) ==
    /\ BearerRequest(r)
    /\ r.req.token = generateAPIKey(1)
    /\ r.db = "up"

AdminKey(id) == \E k \in api_keys : k.id = id /\ k.role = "admin"

\* C21 as stated: a request to an admin path that presents a valid active
\* key of a role other than admin is answered 403 and does not reach the
\* admin handler; only admin keys reach it.  Refuted: with
\* GOOP_DISABLE_AUTH set RequireAdminAuth calls the handler at once.
C21_AsStated ==
    (AuthMiddleware /\ authResp.path \in AdminPaths)
    => /\ UserKeyPresented(authResp) => authResp.status = 403 /\ ~authResp.next
       /\ authResp.next => AdminKey(authResp.key)

\* C21, amended: unless the GOOP_DISABLE_AUTH override is set, a request to
\* an admin path that presents a valid active key of a role other than
\* admin is answered 403 and does not reach the admin handler; only admin
\* keys reach it.
C21_NonAdminForbidden ==
    (AuthMiddleware /\ ~disableAuth /\ authResp.path \in AdminPaths)
    => /\ UserKeyPresented(authResp) => authResp.status = 403 /\ ~authResp.next
       /\ authResp.next => AdminKey(authResp.key)

\* The user key has been presented to an admin path and answered 403.
C21_Witness ==
    /\ AuthMiddleware /\ ~disableAuth
    /\ authResp.path \in AdminPaths
    /\ UserKeyPresented(authResp)
    /\ authResp.status = 403
    /\ authResp.body = <<"Forbidden: admin role required", "\n">>

\* C22 as stated: with the global override set, every request to a path of
\* the native or the OpenAI-compatible proxy reaches its handler, whatever
\* its Authorization header.  Refuted: with the override set InitAuth
\* installs no middleware and InitRouter then registers no proxy handler.
C22_AsStated ==
    (disableAuth /\ authResp.path \in ProxyPaths) => authResp.next

\* The mux answers a request to /healthz in this step.
HealthzServed == authResp = NoAuthResp /\ authResp'.path = "/healthz"

RECURSIVE Slash(_)
Slash(segs) == IF segs = <<>> THEN <<>> ELSE <<"/", Head(segs)>> \o Slash(Tail(segs))

HasPrefix(s, prefix) ==
    Len(prefix) <= Len(s) /\ SubSeq(s, 1, Len(prefix)) = prefix

TrimPrefix(s, prefix) ==
    IF HasPrefix(s, prefix) THEN SubSeq(s, Len(prefix) + 1, Len(s)) ELSE s

\* strings.Index: the first position where substr starts, 0 when none.
Index(s, substr) ==
    LET at == {i \in 1..(Len(s) - Len(substr) + 1) :
                  SubSeq(s, i, i + Len(substr) - 1) = substr}
    IN  IF at = {} THEN 0 ELSE CHOOSE i \in at : \A j \in at : i <= j

Contains(s, substr) == Index(s, substr) # 0

\* strings.Replace(s, old, new, 1)
Replace1(s, old, new) ==
    LET i == Index(s, old)
    IN  IF i = 0 THEN s
        ELSE SubSeq(s, 1, i - 1) \o new \o SubSeq(s, i + Len(old), Len(s))

\* strings.Split(s, "/"): the segments between the slashes.
RECURSIVE Split(_)
Split(s) ==
    LET i == Index(s, <<"/">>)
    IN  IF i = 0 THEN <<s>>
        ELSE <<SubSeq(s, 1, i - 1)>> \o Split(SubSeq(s, i + 1, Len(s)))

\* strings.Join(parts, "/")
RECURSIVE Join(_)
Join(parts) ==
    IF parts = <<>> THEN <<>>
    ELSE IF Len(parts) = 1 THEN parts[1]
    ELSE parts[1] \o <<"/">> \o Join(Tail(parts))

\* strings.SplitN(path, "/", 3): at most three pieces, the last unsplit.
SplitN3(s) ==
    LET i == Index(s, <<"/">>)
    IN  IF i = 0 THEN <<s>>
        ELSE LET rest == SubSeq(s, i + 1, Len(s))
                 j == Index(rest, <<"/">>)
             IN  IF j = 0 THEN <<SubSeq(s, 1, i - 1), rest>>
                 ELSE <<SubSeq(s, 1, i - 1), SubSeq(rest, 1, j - 1),
                        SubSeq(rest, j + 1, Len(rest))>>

(***************************************************************************)
(* Engine configuration.  Engines[e] is the state of the YAML block of     *)
(* engine e: "absent" (no block); "ok"; and the ways a block falls short:  *)
(*   openai   "nokey" (api_key empty), "nobase" (base_url empty)           *)
(*   azure    "nobackends" (empty backend list)                            *)
(*   bedrock  "nocreds" (no access keys in the block: the ambient AWS      *)
(*            chain is used), "disabled" (enabled: false)                  *)
(*   gemini   "nokey" (api_key empty)                                      *)
(*   vertex   "disabled" (enabled: false)                                  *)
(***************************************************************************)
EngineNames == {"openai", "azure", "bedrock", "gemini", "vertex"}

Profiles(e) ==
    CASE e = "openai" -> {"absent", "nokey", "nobase", "ok"}
      [] e = "azure" -> {"absent", "nobackends", "ok"}
      [] e = "bedrock" -> {"absent", "nocreds", "disabled", "ok"}
      [] e = "gemini" -> {"absent", "nokey", "ok"}
      [] OTHER -> {"absent", "disabled", "ok"}

\* EngineCache.isEngineAvailable, with check*Credentials.
isEngineAvailable(cfg, engineType) ==
    IF engineType \notin EngineNames \/ cfg[engineType] = "absent" THEN FALSE
    ELSE CASE engineType = "openai" -> cfg["openai"] \in {"nobase", "ok"}
           [] engineType = "gemini" -> cfg["gemini"] = "ok"
           [] engineType = "bedrock" -> cfg["bedrock"] \in {"disabled", "ok"}
           [] OTHER -> FALSE

\* EngineCache.GetAvailableEngines
GetAvailableEngines(cfg) == {e \in EngineNames : isEngineAvailable(cfg, e)}

\* The adapter constructors: "ok" (an adapter), "err" (an error), or "empty"
\* (NewVertexEngine on a disabled block: a zero VertexEngine and no error).
NewEngine(cfg, kind) ==
    CASE kind = "openai" -> IF cfg["openai"] = "ok" THEN "ok" ELSE "err"
      [] kind = "azure" -> IF cfg["azure"] = "ok" THEN "ok" ELSE "err"
      [] kind = "bedrock" ->
            IF cfg["bedrock"] \in {"nocreds", "ok"} THEN "ok" ELSE "err"
      [] kind = "gemini" -> "ok"
      [] OTHER -> IF cfg["vertex"] = "ok" THEN "ok" ELSE "empty"

\* Engine.Name() of each adapter.
Name(kind) == IF kind = "gemini" THEN "gemini-openai" ELSE kind

\* The ingress prefix each adapter was constructed with.
Prefix(kind) == Slash(<<kind>>)

OpenAIWhitelist ==
    {Slash(<<"v1", "chat", "completions">>), Slash(<<"v1", "completions">>),
     Slash(<<"v1", "models">>), Slash(<<"v1", "embeddings">>),
     Slash(<<"v1", "responses">>)}

BedrockWhitelist ==
    {<<"/", "model", "/">>, Slash(<<"invoke">>), Slash(<<"converse">>),
     Slash(<<"converse-stream">>)}

AzureWhitelist == {<<"chat", "/", "completions">>, <<"completions">>}

GeminiWhitelist ==
    {Slash(<<"chat", "completions">>), Slash(<<"responses">>),
     Slash(<<"embeddings">>), Slash(<<"models">>)}

VertexWhitelist ==
    {<<"/", "v1", "/", "projects", "/">>, <<"/", "v1beta1", "/", "projects", "/">>}

Whitelist(kind) ==
    CASE kind = "openai" -> OpenAIWhitelist
      [] kind = "bedrock" -> BedrockWhitelist
      [] kind = "azure" -> AzureWhitelist
      [] kind = "gemini" -> GeminiWhitelist
      [] OTHER -> VertexWhitelist

\* azure.go extractDeploymentRoute
extractDeploymentRoute(path) ==
    LET parts == Split(path)
    IN  IF Len(parts) > 4 THEN Join(SubSeq(parts, 5, Len(parts))) ELSE <<>>

\* Engine.IsAllowedPath of the adapter of this kind; made is what its
\* constructor returned.  "panic": the zero VertexEngine logs through a nil
\* logger when the path is not allowed.
IsAllowedPath(kind, made, path) ==
    CASE kind \in {"openai", "bedrock"} ->
            IF \E allowedPath \in Whitelist(kind) :
                   HasPrefix(path, Prefix(kind) \o allowedPath)
            THEN "yes" ELSE "no"
      [] kind = "azure" ->
            IF extractDeploymentRoute(TrimPrefix(path, Prefix(kind)))
                   \in AzureWhitelist
            THEN "yes" ELSE "no"
      [] kind = "gemini" ->
            IF \E sub \in GeminiWhitelist :
                   Contains(TrimPrefix(path, Prefix(kind)), sub)
            THEN "yes" ELSE "no"
      [] OTHER ->
            LET prefix == IF made = "empty" THEN <<>> ELSE Prefix(kind)
            IN  IF \E allowed \in VertexWhitelist :
                       HasPrefix(TrimPrefix(path, prefix), allowed)
                THEN "yes"
                ELSE IF made = "empty" THEN "panic" ELSE "no"

\* The name of a path segment: the word it consists of.
SegmentName(seg) ==
    IF seg = <<>> THEN "" ELSE IF Len(seg) = 1 THEN seg[1] ELSE "(other)"

\* The pieces of a response body are frames <<prefix, payload, suffix>>,
\* the payload a sequence of phrases.  http.Error writes the message and a
\* newline.
ErrorFrame(msg) == <<"", msg, "\n">>

Bind(status, msg, kind) ==
    [status |-> status,
     body |-> IF msg = <<>> THEN <<>> ELSE <<ErrorFrame(msg)>>,
     bound |-> kind]

\* The engines each revision of engineMiddleware can construct.
Constructible(rev) ==
    IF rev = "current" THEN {"openai", "azure", "bedrock", "gemini"}
    ELSE {"openai", "azure", "bedrock", "vertex"}

\* ProxyHandler.engineMiddleware: the answer it writes (status 0: none) and
\* the adapter it binds.  Status -1: the handler panicked and the server
\* closed the connection.
engineMiddleware(rev, cfg, path) ==
    LET segments == SplitN3(path) IN
    IF Len(segments) < 2 THEN Bind(400, <<"Invalid path">>, "none")
    ELSE
    LET firstPathSegment == SegmentName(segments[2]) IN
    IF rev = "current" /\ firstPathSegment \notin GetAvailableEngines(cfg)
    THEN Bind(404, <<"Engine not available">>, "none")
    ELSE IF rev = "legacy" /\ (firstPathSegment \notin EngineNames
                                \/ cfg[firstPathSegment] = "absent")
    THEN Bind(404, <<"Engine not found">>, "none")
    ELSE IF firstPathSegment \notin Constructible(rev)
    THEN Bind(404, <<"Engine not found">>, "none")
    ELSE
    LET made == NewEngine(cfg, firstPathSegment)
        allowed == IsAllowedPath(firstPathSegment, made,
                                 TrimPrefix(path, <<Name(firstPathSegment)>>))
    IN  IF made = "err" THEN Bind(500, <<"Error selecting engine">>, "none")
        ELSE IF allowed = "panic" THEN Bind(-1, <<>>, "none")
        ELSE IF allowed = "no" THEN Bind(403, <<"Forbidden">>, "none")
        ELSE Bind(0, <<>>, firstPathSegment)

(***************************************************************************)
(* HTTP requests.  Body is a reader: the bytes and how many have been      *)
(* read (nil: no body; err: reading it fails).  Header holds the headers   *)
(* the adapters, the signer and the reverse proxy touch, and one header a  *)
(* gateway in front of the proxy adds; "" is an absent header.             *)
(* PayloadHash is what the signer hashed (<<"none">> when the request was  *)
(* not signed).                                                            *)
(***************************************************************************)
NewReader(bytes) == [nil |-> FALSE, data |-> bytes, pos |-> 0, err |-> FALSE]

NilBody == [nil |-> TRUE, data |-> <<>>, pos |-> 0, err |-> FALSE]

\* The body of a request whose client breaks off the upload: reading it
\* returns an error.
BrokenReader(bytes) == [NewReader(bytes) EXCEPT !.err = TRUE]

\* io.ReadAll: the bytes not yet read.
ReadAll(body) == SubSeq(body.data, body.pos + 1, Len(body.data))

\* SHA-256, as an injective tag of the bytes.
SHA256(bytes) == <<"sha256", bytes>>

\* The literal e3b0c442...b7852b855: the SHA-256 of no bytes.
EmptySha256 == SHA256(<<>>)

ClientAuthorization == "Bearer proxy-api-key"

SigV4Authorization == "AWS4-HMAC-SHA256"

NoHeader ==
    [Authorization |-> "", XGoogApiKey |-> "", ContentType |-> "",
     XAmznTraceId |-> "", XAmzDate |-> "", XForwardedFor |-> ""]

\* The headers of a request as it arrives, the Authorization header apart.
InboundHeaders ==
    {[NoHeader EXCEPT !.ContentType = ct, !.XAmznTraceId = trace] :
        ct \in {"", "application/json"}, trace \in {"", "Root=1-5e1b4151"}}

InboundRequest(path, authorization, header, body) ==
    [Path |-> path, Scheme |-> "", Host |-> "",
     Header |-> [header EXCEPT !.Authorization = authorization],
     Body |-> body, PayloadHash |-> <<"none">>]

\* A mis-translation of the header cleaning that keeps every header.
cleanHeaders_kept(header) == header

\* Step 3 of SignRequest: a new header map that holds Content-Type only.
cleanHeaders(header) == [NoHeader EXCEPT !.ContentType = header.ContentType]

\* Signer.SignHTTP: the headers the signer sets.
SignHTTP(header) ==
    [header EXCEPT !.Authorization = SigV4Authorization,
                   !.XAmzDate = "20060102T150405Z"]

\* A mis-translation of SignRequest that hashes the body and leaves the
\* reader drained.
SignRequest_drained(r, credsOk) ==
    LET body == IF r.Body.nil THEN <<>> ELSE ReadAll(r.Body)
        r1 == [r EXCEPT !.Body = [NewReader(body) EXCEPT !.pos = Len(body)],
                        !.Scheme = "https", !.Host = "bedrock-runtime",
                        !.Header = cleanHeaders(r.Header)]
    IN  IF r.Body.err THEN r
        ELSE IF ~credsOk THEN r1
        ELSE [r1 EXCEPT !.Header = SignHTTP(r1.Header),
                        !.PayloadHash = SHA256(body)]

\* BedrockEngine.SignRequest: buffer the body (give up when it cannot be
\* read) and put it back, point the request at the runtime endpoint, drop
\* every header but Content-Type, fetch credentials (give up when that
\* fails), hash the body and sign.
SignRequest(r, credsOk) ==
    LET body == IF r.Body.nil THEN <<>> ELSE ReadAll(r.Body)
        r1 == [r EXCEPT !.Body = NewReader(body),
                        !.Scheme = "https", !.Host = "bedrock-runtime",
                        !.Header = cleanHeaders(r.Header)]
    IN  IF r.Body.err THEN r
        ELSE IF ~credsOk THEN r1
        ELSE [r1 EXCEPT !.Header = SignHTTP(r1.Header),
                        !.PayloadHash = SHA256(body)]

\* The earlier revision of SignRequest: credentials first, then the body;
\* a nil body stays nil and is given the literal hash.
SignRequestEarlier(r, credsOk) ==
    IF ~credsOk THEN r
    ELSE IF r.Body.nil
    THEN [r EXCEPT !.Header = SignHTTP(r.Header),
                   !.PayloadHash = EmptySha256]
    ELSE IF r.Body.err THEN r
    ELSE LET body == ReadAll(r.Body)
         IN  [r EXCEPT !.Body = NewReader(body),
                       !.Header = SignHTTP(r.Header),
                       !.PayloadHash = SHA256(body)]

\* What the environment gives a ModifyRequest call: whether AWS credentials
\* can be retrieved, whether a Google access token can be obtained, and
\* whether GEMINI_API_KEY is set.
Envs == [credsOk : BOOLEAN, tokenOk : BOOLEAN, geminiKey : BOOLEAN]

\* Engine.ModifyRequest of the adapter of this kind.
ModifyRequest(rev, kind, r, env) ==
    CASE kind = "openai" ->
            [r EXCEPT !.Path = TrimPrefix(r.Path, Prefix(kind)),
                      !.Scheme = "https", !.Host = "openai",
                      !.Header.Authorization = "Bearer openai-key"]
      [] kind = "azure" ->
            [r EXCEPT !.Path = Replace1(r.Path, Slash(<<"azure">>), Slash(<<"openai">>)),
                      !.Scheme = "https", !.Host = "azure",
                      !.Header.Authorization = "Bearer azure-key"]
      [] kind = "bedrock" ->
            LET r1 == [r EXCEPT !.Path = TrimPrefix(r.Path, Prefix(kind)),
                                !.Scheme = "https", !.Host = "bedrock-runtime",
                                !.Header.Authorization = ""]
            IN  IF rev = "current" THEN SignRequest(r1, env.credsOk)
                ELSE SignRequestEarlier(r1, env.credsOk)
      [] kind = "gemini" ->
            IF ~env.geminiKey THEN r
            ELSE LET raw == HasPrefix(r.Path, Prefix(kind))
                     path == IF raw
                             THEN Replace1(TrimPrefix(r.Path, Prefix(kind)),
                                           <<"/", "v1", "/">>, <<"/", "openai", "/">>)
                             ELSE r.Path
                 IN  [r EXCEPT !.Path = path, !.Scheme = "https", !.Host = "gemini",
                               !.Header = IF raw
                                   THEN [r.Header EXCEPT
                                            !.Authorization = "",
                                            !.XGoogApiKey = "gemini-key",
                                            !.ContentType = "application/json"]
                                   ELSE [r.Header EXCEPT
                                            !.Authorization = "Bearer gemini-key",
                                            !.XGoogApiKey = "",
                                            !.ContentType = "application/json"]]
      [] OTHER ->
            LET r1 == [r EXCEPT !.Path = TrimPrefix(r.Path, Prefix(kind)),
                                !.Scheme = "https", !.Host = "vertex"]
            IN  IF ~env.tokenOk THEN r1
                ELSE [r1 EXCEPT !.Header.Authorization = "Bearer vertex-token"]

\* The transport sends a request only when its URL has a scheme and a host
\* and its body can be read.
Sendable(r) == r.Scheme # "" /\ r.Host # "" /\ ~r.Body.err

\* What goes on the wire for r: the body is what is left in the reader.
\* httputil.ReverseProxy, used with a Director, adds X-Forwarded-For to the
\* copy of the request it sends.
Sent(mode, r) ==
    [mode |-> mode, Host |-> r.Host, Path |-> r.Path,
     Header |-> IF mode = "native"
                THEN [r.Header EXCEPT !.XForwardedFor = "client"]
                ELSE r.Header,
     Body |-> IF r.Body.nil THEN <<>> ELSE ReadAll(r.Body),
     PayloadHash |-> r.PayloadHash]

(***************************************************************************)
(* The OpenAI-compatible pipeline: OpenAIProxyHandler.  A model name is a  *)
(* sequence of atoms like a path; an error is the sequence of the phrases  *)
(* of its message, so that strings.Contains can be asked of it.            *)
(***************************************************************************)
Err(phrases) == [failed |-> TRUE, text |-> phrases, engine |-> "none"]

Selected(engineType) == [failed |-> FALSE, text |-> <<>>, engine |-> engineType]

\* EngineCache.createEngine
createEngine(cfg, engineType) ==
    IF cfg[engineType] = "absent"
    THEN Err(<<"engine", engineType, "not configured">>)
    ELSE IF engineType \notin {"openai", "bedrock", "gemini"}
    THEN Err(<<"unsupported engine type", engineType>>)
    ELSE IF NewEngine(cfg, engineType) = "err"
    THEN Err(<<"failed to create engine", engineType>>)
    ELSE Selected(engineType)

\* A mis-translation of GetEngine that hands createEngine's error on as it
\* is.
GetEngine_unwrapped(cfg, engineType, model) == createEngine(cfg, engineType)

\* EngineCache.GetEngine: an adapter held in the cache was built by
\* createEngine from the same configuration.
GetEngine(cfg, engineType, model) ==
    LET made == createEngine(cfg, engineType)
    IN  IF made.failed
        THEN Err(<<"engine", engineType, "not available", ":">> \o made.text)
        ELSE made

\* A mis-translation of selectEngine that takes the OpenAI adapter for
\* every model without looking at the configuration.
selectEngine_alwaysOpenAI(cfg, model) == Selected("openai")

\* OpenAIProxyHandler.selectEngine
selectEngine(cfg, model) ==
    LET available(e) == e \in GetAvailableEngines(cfg) IN
    IF HasPrefix(model, <<"openai", "/">>)
    THEN IF ~available("openai")
         THEN Err(<<"OpenAI engine", "not available", "- check API key configuration">>)
         ELSE GetEngine(cfg, "openai", model)
    ELSE IF HasPrefix(model, <<"bedrock", "/">>)
    THEN IF ~available("bedrock")
         THEN Err(<<"Bedrock engine", "not available",
                    "- check AWS credentials configuration">>)
         ELSE GetEngine(cfg, "bedrock", model)
    ELSE IF HasPrefix(model, <<"gemini", "/">>)
    THEN IF ~available("gemini")
         THEN Err(<<"Gemini engine", "not available", "- check API key configuration">>)
         ELSE GetEngine(cfg, "gemini", model)
    ELSE IF \E h \in {<<"gpt-">>, <<"text-">>, <<"davinci">>} : HasPrefix(model, h)
    THEN IF available("openai") THEN GetEngine(cfg, "openai", model)
         ELSE Err(<<"OpenAI engine", "not available", "for model">> \o model)
    ELSE IF HasPrefix(model, <<"gemini-">>)
    THEN IF available("gemini") THEN GetEngine(cfg, "gemini", model)
         ELSE Err(<<"Gemini engine", "not available", "for model">> \o model)
    ELSE Err(<<"unsupported model", ":">> \o model
               \o <<". Use prefixes like openai/, bedrock/, or gemini/">>)

\* TransformChatCompletionRequest: the body sent to the provider.  The
\* OpenAI and Gemini adapters put the model name without their prefix in
\* it; the Bedrock adapter builds a Converse document without the model.
TransformChatCompletionRequest(kind, model, bytes) ==
    CASE kind = "openai" ->
            <<"model=">> \o TrimPrefix(model, <<"openai", "/">>) \o <<";">> \o bytes
      [] kind = "gemini" ->
            <<"model=">> \o TrimPrefix(model, <<"gemini", "/">>) \o <<";">> \o bytes
      [] OTHER -> <<"converse:">> \o bytes

\* HandleChatCompletionRequest up to the transport: the request the adapter
\* builds, or an error.
HandleChatCompletionRequest(kind, model, stream, transformedBody, env) ==
    LET new(path) == [Path |-> path, Scheme |-> "", Host |-> "",
                      Header |-> [NoHeader EXCEPT !.ContentType = "application/json"],
                      Body |-> NewReader(transformedBody),
                      PayloadHash |-> <<"none">>]
    IN  CASE kind = "openai" ->
                [failed |-> FALSE,
                 r |-> ModifyRequest("current", "openai",
                                     new(Slash(<<"v1", "chat", "completions">>)), env)]
          [] kind = "gemini" ->
                LET r == ModifyRequest("current", "gemini",
                             new(Slash(<<"gemini", "v1", "chat", "completions">>)), env)
                IN  [failed |-> ~Sendable(r), r |-> r]
          [] OTHER ->
                IF ~HasPrefix(model, <<"bedrock", "/">>)
                THEN [failed |-> TRUE, r |-> new(<<>>)]
                ELSE LET endpoint == <<"/", "model", "/">>
                             \o TrimPrefix(model, <<"bedrock", "/">>)
                             \o <<"/", IF stream THEN "converse-stream" ELSE "converse">>
                         r0 == [new(endpoint) EXCEPT !.Scheme = "https",
                                                     !.Host = "bedrock-runtime"]
                     IN  [failed |-> FALSE, r |-> SignRequest(r0, env.credsOk)]

(***************************************************************************)
(* The native pipeline: audit, engineMiddleware, logging, cors,            *)
(* reverseProxy.  One request is in flight at a time.                      *)
(***************************************************************************)
MaxBody == 1

MaxMisconfigured == 1

Bodies == UNION {[1..n -> {"a", "b"}] : n \in 0..MaxBody}

Configs ==
    {cfg \in [EngineNames -> UNION {Profiles(e) : e \in EngineNames}] :
        /\ \A e \in EngineNames : cfg[e] \in Profiles(e)
        /\ Cardinality({e \in EngineNames : cfg[e] # "ok"}) <= MaxMisconfigured}

NativeSuffixes ==
    {<<>>,
     Slash(<<"v1", "chat", "completions">>),
     Slash(<<"v1", "chat", "completions">>) \o <<"x">>,
     Slash(<<"v1", "models">>),
     Slash(<<"v1", "files">>),
     Slash(<<"model", "m", "invoke">>),
     Slash(<<"model", "m", "converse-stream">>),
     Slash(<<"x", "models">>),
     Slash(<<"openai", "deployments", "d", "chat", "completions">>),
     Slash(<<"openai", "deployments", "d", "chat", "completions", "x">>),
     Slash(<<"v1", "projects", "p">>),
     Slash(<<"v1beta1", "projects", "p">>),
     Slash(<<"admin">>)}

NativePaths ==
    {<<"/">> \o first \o suffix :
        first \in {<<e>> : e \in EngineNames} \cup {<<>>, <<"other">>, <<"bedrock", "x">>},
        suffix \in NativeSuffixes}

UpstreamStatuses == {200, 429}

NoReq == [mode |-> "none"]

NoResp == [status |-> 0, body |-> <<>>]

NoUpstream == [status |-> 0, contentType |-> "", body |-> "", n |-> 0, last |-> ""]

ProxyIdle ==
    /\ pc = "idle"
    /\ req = NoReq
    /\ bound = "none"
    /\ resp = NoResp
    /\ wire = <<>>
    /\ upresp = NoUpstream

\* audit.Request: drains the body of the request into memory and puts a
\* reader over the same bytes in its place; a body that cannot be read is an
\* error, and the request is left as it was.
Request(r) ==
    IF r.Body.nil THEN [err |-> FALSE, r |-> r]
    ELSE IF r.Body.err THEN [err |-> TRUE, r |-> r]
    ELSE [err |-> FALSE, r |-> [r EXCEPT !.Body = NewReader(ReadAll(r.Body))]]

\* auditMiddleware of ProxyHandler and of OpenAIProxyHandler: the answer it
\* writes (status 0: none, the next handler runs).
auditMiddleware(r) ==
    IF Request(r).err THEN Bind(500, <<"Audit failed">>, "none")
    ELSE Bind(0, <<>>, "none")

\* A native request arrives: auditMiddleware answers it or hands it to
\* engineMiddleware, which answers it or binds an adapter to it.
NativeDispatch ==
    /\ pc = "idle"
    /\ \E path \in NativePaths, authorization \in {"", ClientAuthorization},
          header \in InboundHeaders, bytes \in Bodies, broken \in BOOLEAN :
         LET r == InboundRequest(path, authorization, header,
                                 IF broken THEN BrokenReader(bytes)
                                 ELSE NewReader(bytes))
             a == auditMiddleware(r)
             d == IF a.status # 0 THEN a
                  ELSE engineMiddleware(revision, Engines, path)
         IN
         /\ req' = [mode |-> "native", path |-> path, header |-> header,
                    http |-> Request(r).r]
         /\ bound' = d.bound
         /\ resp' = [status |-> d.status, body |-> d.body]
         /\ pc' = IF d.bound = "none" THEN "done" ELSE "bound"
    /\ UNCHANGED <<Engines, revision, wire, upresp, authVars, sideVars>>

\* ProxyHandler.reverseProxy: the bound adapter rewrites the request and the
\* reverse proxy (whose Director does nothing) hands it to the transport.
reverseProxy ==
    /\ pc = "bound"
    /\ req.mode = "native"
    /\ \E env \in Envs, status \in UpstreamStatuses :
         LET r == ModifyRequest(revision, bound, req.http, env) IN
         /\ req' = [req EXCEPT !.http = r]
         /\ IF Sendable(r)
            THEN /\ wire' = Append(wire, Sent("native", r))
                 /\ resp' = [status |-> status, body |-> <<<<"", <<"upstream body">>, "">>>>]
            ELSE /\ wire' = wire
                 /\ resp' = [status |-> 502, body |-> <<>>]
    /\ pc' = "done"
    /\ UNCHANGED <<Engines, revision, bound, upresp, authVars, sideVars>>

\* The response has been delivered; the server takes the next request.
ProxyDone ==
    /\ pc = "done"
    /\ pc' = "idle"
    /\ req' = NoReq
    /\ bound' = "none"
    /\ resp' = NoResp
    /\ wire' = <<>>
    /\ upresp' = NoUpstream
    /\ UNCHANGED <<Engines, revision, authVars, sideVars>>

(***************************************************************************)
(* The response writer and the relaying of the provider's response.        *)
(***************************************************************************)
MaxEvents == 2

SSE(payload) == <<"data: ", payload, "\n\n">>

Raw(payload) == <<"", payload, "">>

\* http.ResponseWriter.WriteHeader: the first status written wins.
WriteHeader(w, code) == IF w.status = 0 THEN [w EXCEPT !.status = code] ELSE w

\* http.ResponseWriter.Write: an unwritten header goes out as 200.
Write(w, frame) == [WriteHeader(w, 200) EXCEPT !.body = Append(@, frame)]

\* http.Error on a writer that may have been written to already.
Error(w, msg, code) ==
    [WriteHeader(w, code) EXCEPT !.body = Append(@, ErrorFrame(msg))]

CompatModels ==
    {<<e, "/", "m">> : e \in EngineNames}
    \cup {<<"gpt-", "4o">>, <<"text-", "x">>, <<"davinci">>, <<"gemini-", "pro">>,
          <<"claude">>, <<>>, <<"bedrock", "/", "bedrock", "/", "m">>,
          <<"openai", "/">>, <<"openaix", "/", "m">>}

\* What a provider may answer: 200 with a completion (a stream for a
\* streaming request) or an error status with a JSON error object or with
\* a body that is no JSON.
UpstreamResponses(kind, stream) ==
    {[status |-> 200,
      contentType |-> IF ~stream THEN "application/json"
                      ELSE IF kind = "bedrock" THEN "application/vnd.amazon.eventstream"
                      ELSE "text/event-stream",
      body |-> "completion", n |-> 0, last |-> ""]}
    \cup [status : UpstreamStatuses \ {200}, contentType : {"application/json"},
          body : {"error object", "not json"}, n : {0}, last : {""}]

\* The events of a provider stream.  Bedrock: event-stream messages by
\* :event-type and payload; OpenAI and Gemini: server-sent-event frames.
StreamEvents(kind) ==
    IF kind = "bedrock"
    THEN [type : {"messageStart", "messageEnd", "messageStop"}, payload : {""}]
         \cup [type : {"contentBlockDelta"},
               payload : {"text delta", "not json", "delta not an object"}]
    ELSE [type : {"sse"}, payload : {"chunk", "[DONE]"}]

\* transformer.go processStreamingEvent with handleContentBlockDelta,
\* extractContentOrToolCall and sendOpenAIChunk.
processStreamingEvent(event, w) ==
    CASE event.type = "messageStart" -> [w |-> w, failed |-> FALSE]
      [] event.type = "messageEnd" ->
            [w |-> Write(w, <<"", <<"[DONE]">>, "\n\n">>), failed |-> FALSE]
      [] event.type = "contentBlockDelta" ->
            IF event.payload = "not json" THEN [w |-> w, failed |-> FALSE]
            ELSE IF event.payload = "delta not an object"
            THEN [w |-> w, failed |-> TRUE]
            ELSE [w |-> Write(w, SSE(<<"chunk">>)), failed |-> FALSE]
      [] OTHER -> [w |-> w, failed |-> FALSE]

\* handleChatCompletionsInternal on an error of selectEngine.
SelectionError(w, err) ==
    IF Contains(err.text, <<"not available">>)
           \/ Contains(err.text, <<"not configured">>)
           \/ Contains(err.text, <<"unsupported model">>)
    THEN Error(w, err.text, 400)
    ELSE Error(w, <<"Error selecting engine">>, 500)

\* A chat-completion request arrives at /openai-proxy/v1/chat/completions:
\* auditMiddleware answers it or hands it on, and
\* handleChatCompletionsInternal selects the adapter, has it transform the
\* request and send it to the provider, whose response headers come back.
CompatDispatch ==
    /\ pc = "idle"
    /\ revision = "current"
    /\ \E model \in CompatModels, stream \in BOOLEAN, bytes \in Bodies, env \in Envs,
          broken \in BOOLEAN :
         LET r == InboundRequest(
                      Slash(<<"openai-proxy", "v1", "chat", "completions">>),
                      ClientAuthorization,
                      [NoHeader EXCEPT !.ContentType = "application/json"],
                      IF broken THEN BrokenReader(bytes) ELSE NewReader(bytes))
             a == auditMiddleware(r)
             sel == selectEngine(Engines, model)
             kind == sel.engine
             h == HandleChatCompletionRequest(kind, model, stream,
                      TransformChatCompletionRequest(kind, model, bytes), env)
         IN  /\ req' = [mode |-> "compat", http |-> Request(r).r,
                        model |-> model, stream |-> stream]
             /\ IF a.status # 0
                THEN /\ resp' = [status |-> a.status, body |-> a.body]
                     /\ UNCHANGED <<bound, wire, upresp>>
                     /\ pc' = "done"
                ELSE IF sel.failed
                THEN /\ resp' = SelectionError(NoResp, sel)
                     /\ UNCHANGED <<bound, wire, upresp>>
                     /\ pc' = "done"
                ELSE IF h.failed
                THEN /\ resp' = Error(NoResp, <<"Error processing request">>, 500)
                     /\ bound' = kind
                     /\ UNCHANGED <<wire, upresp>>
                     /\ pc' = "done"
                ELSE /\ \E up \in UpstreamResponses(kind, stream) : upresp' = up
                     /\ bound' = kind
                     /\ wire' = Append(wire, Sent("compat", h.r))
                     /\ resp' = NoResp
                     /\ pc' = "respond"
    /\ UNCHANGED <<Engines, revision, authVars, sideVars>>

\* SendChatCompletionResponse of the bound adapter, up to the first byte of
\* a stream.  OpenAI and Gemini copy status and body; Bedrock looks at the
\* Content-Type only and decodes everything else as a Converse response.
SendChatCompletionResponse ==
    /\ pc = "respond"
    /\ IF bound = "bedrock"
       THEN IF upresp.contentType = "application/vnd.amazon.eventstream"
            THEN resp' = resp /\ pc' = "streaming"
            ELSE IF upresp.body = "not json"
            THEN /\ resp' = Error(resp, <<"Error sending response">>, 500)
                 /\ pc' = "done"
            ELSE /\ resp' = Write(WriteHeader(resp, 200), Raw(<<"chat.completion">>))
                 /\ pc' = "done"
       ELSE IF req.stream
            THEN resp' = WriteHeader(resp, upresp.status) /\ pc' = "streaming"
            ELSE /\ resp' = Write(WriteHeader(resp, upresp.status), Raw(<<upresp.body>>))
                 /\ pc' = "done"
    /\ UNCHANGED <<Engines, revision, req, bound, wire, upresp, authVars, sideVars>>

\* One more event of the provider's stream is relayed: by
\* processStreamingEvent (Bedrock) or by io.Copy (OpenAI, Gemini).  An error
\* ends the handler with http.Error on the same writer.
StreamEvent ==
    /\ pc = "streaming"
    /\ upresp.n < MaxEvents
    /\ upresp.body = "completion"
    /\ \E event \in StreamEvents(bound) :
         LET out == IF bound = "bedrock" THEN processStreamingEvent(event, resp)
                    ELSE [w |-> Write(resp, SSE(<<event.payload>>)), failed |-> FALSE]
         IN  /\ IF out.failed
                THEN /\ resp' = Error(out.w, <<"Error sending response">>, 500)
                     /\ pc' = "done"
                ELSE /\ resp' = out.w
                     /\ pc' = "streaming"
             /\ upresp' = [upresp EXCEPT !.n = @ + 1, !.last = event.type]
    /\ UNCHANGED <<Engines, revision, req, bound, wire, authVars, sideVars>>

\* The provider's body ends: cleanly (io.EOF) or with a read error, which
\* ends the handler with http.Error on the same writer.  A body that is no
\* stream (an error answer to a streaming request) is copied here.
StreamEnd ==
    /\ pc = "streaming"
    /\ \E clean \in BOOLEAN :
         LET w == IF upresp.body = "completion" THEN resp
                  ELSE Write(resp, Raw(<<upresp.body>>))
         IN  resp' = IF clean THEN w
                     ELSE Error(w, <<"Error sending response">>, 500)
    /\ pc' = "done"
    /\ UNCHANGED <<Engines, revision, req, bound, wire, upresp, authVars, sideVars>>

InitProxy ==
    /\ Engines \in Configs
    /\ revision \in {"current", "legacy"}
    /\ ProxyIdle
    /\ AuthMiddleware = TRUE
    /\ disableAuth = FALSE
    /\ AuthIdle
    /\ Serving
    /\ SideIdle

NextProxy ==
    \/ NativeDispatch
    \/ reverseProxy
    \/ CompatDispatch
    \/ SendChatCompletionResponse
    \/ StreamEvent
    \/ StreamEnd
    \/ ProxyDone

SpecProxy == InitProxy /\ [][NextProxy]_vars

(***************************************************************************)
(* Claims about the two proxy pipelines.                                   *)
(***************************************************************************)
ToBedrock(sent) == sent.Host = "bedrock-runtime"

Signed(sent) == sent.PayloadHash # <<"none">>

\* C3: for every signed request sent to Bedrock, in native and in compat
\* mode, the payload hash the signer used is the SHA-256 of exactly the
\* body bytes that go on the wire; with no body bytes it is the SHA-256 of
\* the empty string.
C3_PayloadHashIsBodyHash ==
    \A i \in DOMAIN wire :
        (ToBedrock(wire[i]) /\ Signed(wire[i]))
        => /\ wire[i].PayloadHash = SHA256(wire[i].Body)
           /\ (wire[i].Body = <<>> => wire[i].PayloadHash = EmptySha256)

\* A signed native request with a body that is not empty is on the wire.
C3_Witness ==
    \E i \in DOMAIN wire :
        /\ ToBedrock(wire[i]) /\ Signed(wire[i])
        /\ wire[i].mode = "native"
        /\ wire[i].Body # <<>>

\* C4 as stated: every request sent to the Bedrock runtime endpoint
\* carries a SigV4 Authorization header computed by the proxy.  Refuted:
\* SignRequest returns without signing when the credentials cannot be
\* retrieved and its callers send the request all the same.
C4_AsStated ==
    \A i \in DOMAIN wire :
        ToBedrock(wire[i]) => wire[i].Header.Authorization = SigV4Authorization

\* C5 as stated: in native mode no request sent to a provider carries the
\* Authorization value the client presented to the proxy.  Refuted: the
\* Vertex adapter returns early when no access token can be obtained and
\* leaves the client's header on the rewritten request.
C5_AsStated ==
    \A i \in DOMAIN wire :
        wire[i].mode = "native"
        => wire[i].Header.Authorization # ClientAuthorization

\* The engine a request resolves to: the first path segment in native mode,
\* the model prefix or the heuristic in compat mode.
ResolvedEngine(r) ==
    IF r.mode = "native" THEN SegmentName(SplitN3(r.path)[2])
    ELSE IF \E e \in EngineNames : HasPrefix(r.model, <<e, "/">>)
    THEN CHOOSE e \in EngineNames : HasPrefix(r.model, <<e, "/">>)
    ELSE IF \E h \in {<<"gpt-">>, <<"text-">>, <<"davinci">>} : HasPrefix(r.model, h)
    THEN "openai"
    ELSE IF HasPrefix(r.model, <<"gemini-">>) THEN "gemini"
    ELSE "none"

\* C6 as stated: the adapter bound to a request has the tag of the engine
\* the request resolves to.  Refuted: the Gemini adapter's Name() is
\* "gemini-openai" while its requests resolve to "gemini".
C6_AsStated == bound # "none" => Name(bound) = ResolvedEngine(req)

StartsWhitelisted(kind, path) ==
    \E allowed \in Whitelist(kind) :
        HasPrefix(TrimPrefix(path, Prefix(kind)), allowed)

\* C7 as stated: in native mode only a request whose path, without the
\* ingress prefix, begins with a whitelisted prefix of its engine is bound
\* to an adapter and forwarded.  Refuted: the Gemini adapter admits every
\* path that contains a whitelisted string anywhere, and the Azure adapter
\* matches the deployment route instead of a prefix.
C7_AsStated ==
    (req.mode = "native" /\ (bound # "none" \/ wire # <<>>))
    => StartsWhitelisted(bound, req.path)

\* The model id a request on the wire names to its provider: in the URL of
\* a Bedrock request, in the body of an OpenAI or Gemini request.
UpstreamModel(sent) ==
    IF ToBedrock(sent) THEN SubSeq(sent.Path, 4, Len(sent.Path) - 2)
    ELSE SubSeq(sent.Body, 2, Index(sent.Body, <<";">>) - 1)

\* A compat request got past auditMiddleware and
\* handleChatCompletionsInternal has taken it up.
CompatHandled == req.mode = "compat" /\ pc # "idle" /\ ~req.http.Body.err

DispatchedByPrefix(engines) ==
    \A e \in engines :
        (CompatHandled /\ HasPrefix(req.model, <<e, "/">>) /\ Engines[e] = "ok")
        => /\ bound = e
           /\ \A i \in DOMAIN wire :
                 UpstreamModel(wire[i]) = TrimPrefix(req.model, <<e, "/">>)

\* C8 as stated: a compat request whose model carries one of the prefixes
\* openai/, azure/, bedrock/, vertex/, gemini/ is dispatched to that
\* engine (taken to be configured), and the model id sent upstream is the
\* request's model without the prefix.  Refuted: selectEngine knows no
\* azure/ and no vertex/ prefix and answers "unsupported model".
C8_AsStated == DispatchedByPrefix(EngineNames)

\* C8, amended: a compat request whose model carries one of the prefixes
\* openai/, bedrock/ or gemini/, with that engine configured, is dispatched
\* to that engine, and the model id sent upstream is the request's model
\* without the prefix.
C8_PrefixDispatch == DispatchedByPrefix({"openai", "bedrock", "gemini"})

\* A bedrock/ model was dispatched to Bedrock and its request, naming the
\* model without the prefix, is on the wire.
C8_Witness ==
    /\ CompatHandled
    /\ req.model = <<"bedrock", "/", "bedrock", "/", "m">>
    /\ bound = "bedrock"
    /\ wire # <<>>
    /\ UpstreamModel(wire[1]) = <<"bedrock", "/", "m">>

\* The engine selected for a compat request is one of the three the handler
\* can select, and it lacks credentials or its adapter cannot be made.
SelectedUnavailable ==
    /\ CompatHandled
    /\ ResolvedEngine(req) \in {"openai", "bedrock", "gemini"}
    /\ \/ Engines[ResolvedEngine(req)] \in {"absent", "nokey", "nocreds"}
       \/ NewEngine(Engines, ResolvedEngine(req)) = "err"

\* C9: when the engine selected for a compat request is not credentialed or
\* no adapter can be constructed for it, the client receives status 400
\* with the explanatory message and nothing is sent upstream.
C9_UnavailableIs400 ==
    SelectedUnavailable
    => /\ pc = "done"
       /\ resp.status = 400
       /\ Len(resp.body) = 1
       /\ Contains(resp.body[1][2], <<"not available">>)
       /\ wire = <<>>
       /\ bound = "none"

\* A bedrock/ model with Bedrock credentialed but disabled, so that the
\* adapter's constructor fails, was answered 400.
C9_Witness ==
    /\ SelectedUnavailable
    /\ ResolvedEngine(req) = "bedrock"
    /\ Engines["bedrock"] = "disabled"
    /\ resp.status = 400

\* C10 as stated: when the provider answers a compat request with a status
\* outside 2xx, the client receives that status.  Refuted: the Bedrock
\* adapter decodes the error body as a Converse response and sends it as a
\* 200 completion (500 when the body is no JSON).
C10_AsStated ==
    (CompatHandled /\ pc = "done" /\ upresp.status # 0
        /\ upresp.status \notin 200..299)
    => resp.status = upresp.status

Terminator == SSE(<<"[DONE]">>)

\* A stream of data frames ended by exactly one terminator frame.
WellFormedStream(body) ==
    /\ body # <<>>
    /\ \A i \in DOMAIN body : body[i][1] = "data: " /\ body[i][3] = "\n\n"
    /\ \A i \in DOMAIN body : body[i] = Terminator <=> i = Len(body)

\* No text of http.Error is among the frames.
NoErrorText(body) == \A i \in DOMAIN body : body[i][3] # "\n"

\* C1 as stated, for the Bedrock adapter and a provider stream that is
\* complete: the bytes the client receives for a streaming compat request
\* whose provider stream ended with messageEnd and without an error are
\* data frames followed by exactly one `data: [DONE]` frame and nothing
\* after it.  Refuted: the adapter writes the terminator without the
\* `data: ` prefix.
C1_AsStated ==
    (CompatHandled /\ pc = "done" /\ req.stream /\ bound = "bedrock"
        /\ upresp.status = 200 /\ upresp.last = "messageEnd"
        /\ NoErrorText(resp.body))
    => WellFormedStream(resp.body)

\* The headers a request carries.
Present(header) == {name \in DOMAIN header : header[name] # ""}

\* The headers SignHTTP injects.
SignerHeaders == {"Authorization", "XAmzDate"}

\* SignRequest of the current revision got past reading the body of the
\* native request bound to Bedrock.
NativeSignerRan ==
    /\ revision = "current"
    /\ pc = "done"
    /\ req.mode = "native"
    /\ bound = "bedrock"
    /\ ~req.http.Body.err

\* C20: after SignRequest has run, the request carries Content-Type, with
\* the value it arrived with, when it arrived with one, the headers the
\* signer injects, and no other header; the same holds of the request the
\* Bedrock adapter builds and signs in OpenAI-compat mode.
C20_OnlyAllowlistedHeaders ==
    /\ NativeSignerRan
       => /\ Present(req.http.Header) \subseteq {"ContentType"} \cup SignerHeaders
          /\ req.http.Header.ContentType = req.header.ContentType
    /\ \A i \in DOMAIN wire :
          (wire[i].mode = "compat" /\ ToBedrock(wire[i]))
          => /\ Present(wire[i].Header) \subseteq {"ContentType"} \cup SignerHeaders
             /\ wire[i].Header.ContentType = "application/json"

\* A native request that arrived with Content-Type and a gateway's trace
\* header has been signed.
C20_Witness ==
    /\ NativeSignerRan
    /\ req.header.ContentType = "application/json"
    /\ req.header.XAmznTraceId # ""
    /\ req.http.Header.Authorization = SigV4Authorization
    /\ req.http.Header.ContentType = "application/json"

IsErrorText(frame) == frame[1] = "" /\ frame[3] = "\n"

\* C11 as stated: when the provider's stream of a streaming compat request
\* fails, the client receives a single 500 error response if nothing has
\* been sent yet, and otherwise nothing further is written: the text of an
\* error is found only as the whole body of a 500 response.  Refuted:
\* handleChatCompletionsInternal calls http.Error on the writer whatever
\* has been written to it.
C11_AsStated ==
    (CompatHandled /\ pc = "done" /\ req.stream /\ upresp.status = 200)
    => \A i \in DOMAIN resp.body :
           IsErrorText(resp.body[i]) => Len(resp.body) = 1 /\ resp.status = 500

\* A request whose body could not be read has been answered.
UnreadableBody == req.mode # "none" /\ pc = "done" /\ req.http.Body.err

\* C23 as stated: a request whose body cannot be read in full by the
\* request-side audit is answered 400 and reaches neither an adapter nor a
\* provider.  Refuted: auditMiddleware answers 500.
C23_AsStated ==
    UnreadableBody => resp.status = 400 /\ bound = "none" /\ wire = <<>>

(***************************************************************************)
(* The post-response hook: audit.Response, installed as ModifyResponse of  *)
(* the reverse proxy.  It puts an io.Pipe between the provider's body and  *)
(* the proxy's copy loop; a goroutine scans the body byte by byte into the *)
(* pipe and calls eng.ResponseCallback when the body has ended.            *)
(***************************************************************************)
MaxBytes == 3

\* The other parts of the program at rest.
Quiescent ==
    /\ AuthMiddleware = TRUE
    /\ disableAuth = FALSE
    /\ AuthIdle
    /\ Serving
    /\ Engines = [e \in EngineNames |-> "ok"]
    /\ revision = "current"
    /\ ProxyIdle

\* audit.Response: the provider has answered with a body of some length;
\* the pipe is made and the goroutine started.  Of the body: pos bytes
\* have been read (the bytes 1..pos), buf bytes are in respBodyBuf, ended
\* tells how the reading ended ("eof": the body was exhausted, "error": a
\* read failed), closed that the body was closed or its connection torn
\* down.  The pipe is "open", closed at its write side ("wclosed"), at its
\* read side ("rclosed") or at both ("closed").
Response ==
    /\ scanner = "idle"
    /\ \E len \in 0..MaxBytes :
         respBody' = [len |-> len, pos |-> 0, buf |-> 0, closed |-> FALSE,
                      ended |-> "no"]
    /\ scanner' = "scan"
    /\ pipe' = "open"
    /\ copy' = [pc |-> "read", buf |-> <<>>]
    /\ client' = [connected |-> TRUE, received |-> <<>>]
    /\ callbacks' = 0
    /\ UNCHANGED <<authVars, proxyVars, azureVars, chainVars, lockVars, cacheVars, xformVars, modelVars>>

\* scanner.Scan(), scanner.Bytes() and respBodyBuf.Write(b): the next byte
\* of the provider's body goes to the buffer, or the loop ends, at the end
\* of the body or at a read error, which the scanner does not tell apart.
Scan ==
    /\ scanner = "scan"
    /\ \/ /\ respBody.pos < respBody.len
          /\ ~respBody.closed
          /\ respBody' = [respBody EXCEPT !.pos = @ + 1, !.buf = @ + 1]
          /\ scanner' = "write"
       \/ /\ respBody.pos = respBody.len
          /\ ~respBody.closed
          /\ respBody' = [respBody EXCEPT !.ended = "eof"]
          /\ scanner' = "close"
       \/ /\ respBody' = [respBody EXCEPT !.ended = "error"]
          /\ scanner' = "close"
    /\ UNCHANGED <<pipe, copy, client, callbacks, authVars, proxyVars, azureVars, chainVars, lockVars, cacheVars, xformVars, modelVars>>

PipeTransfer_firstByte ==
    /\ scanner = "write"
    /\ pipe = "open"
    /\ copy.pc = "read"
    /\ copy' = [pc |-> "write", buf |-> <<1>>]
    /\ scanner' = "scan"
    /\ UNCHANGED <<respBody, pipe, client, callbacks, authVars, proxyVars, azureVars, chainVars, lockVars, cacheVars, xformVars, modelVars>>

\* pw.Write(b) meets pr.Read of the proxy's copy loop: b, the token of
\* the last Scan, is in the loop's buffer and Write returns.  A byte of
\* the body is told from the others by its position in the body.
PipeTransfer ==
    /\ scanner = "write"
    /\ pipe = "open"
    /\ copy.pc = "read"
    /\ copy' = [pc |-> "write", buf |-> <<respBody.pos>>]
    /\ scanner' = "scan"
    /\ UNCHANGED <<respBody, pipe, client, callbacks, authVars, proxyVars, azureVars, chainVars, lockVars, cacheVars, xformVars, modelVars>>

PipeWriteFails_ignored ==
    /\ scanner = "write"
    /\ pipe = "rclosed"
    /\ scanner' = "scan"
    /\ UNCHANGED <<respBody, pipe, copy, client, callbacks, authVars, proxyVars, azureVars, chainVars, lockVars, cacheVars, xformVars, modelVars>>

\* pw.Write(b) on a pipe whose read side is closed: the goroutine returns.
\* The earlier AuditResponse did not look at the error and went on with
\* the loop.
PipeWriteFails ==
    /\ scanner = "write"
    /\ pipe = "rclosed"
    /\ scanner' = IF revision = "current" THEN "failed" ELSE "scan"
    /\ UNCHANGED <<respBody, pipe, copy, client, callbacks, authVars, proxyVars, azureVars, chainVars, lockVars, cacheVars, xformVars, modelVars>>

CopyWrite_leavesPipe ==
    /\ copy.pc = "write"
    /\ IF client.connected
       THEN /\ client' = [client EXCEPT !.received = @ \o copy.buf]
            /\ copy' = [pc |-> "read", buf |-> <<>>]
       ELSE /\ copy' = [pc |-> "aborted", buf |-> <<>>]
            /\ UNCHANGED client
    /\ UNCHANGED <<respBody, scanner, pipe, callbacks, authVars, proxyVars, azureVars, chainVars, lockVars, cacheVars, xformVars, modelVars>>

\* The copy loop writes its buffer to the client and flushes.  A write to
\* a closed connection aborts the loop, and the proxy closes the pipe.
CopyWrite ==
    /\ copy.pc = "write"
    /\ IF client.connected
       THEN /\ client' = [client EXCEPT !.received = @ \o copy.buf]
            /\ copy' = [pc |-> "read", buf |-> <<>>]
            /\ UNCHANGED pipe
       ELSE /\ copy' = [pc |-> "aborted", buf |-> <<>>]
            /\ pipe' = IF pipe = "open" THEN "rclosed"
                       ELSE IF pipe = "wclosed" THEN "closed" ELSE pipe
            /\ UNCHANGED client
    /\ UNCHANGED <<respBody, scanner, callbacks, authVars, proxyVars, azureVars, chainVars, lockVars, cacheVars, xformVars, modelVars>>

\* pr.Read at the closed write side: EOF, the copy loop ends.
CopyEOF ==
    /\ copy.pc = "read"
    /\ pipe = "wclosed"
    /\ copy' = [copy EXCEPT !.pc = "done"]
    /\ UNCHANGED <<respBody, scanner, pipe, client, callbacks, authVars, proxyVars, azureVars, chainVars, lockVars, cacheVars, xformVars, modelVars>>

ClosePipe_bodyOnly ==
    /\ scanner = "close"
    /\ respBody' = [respBody EXCEPT !.closed = TRUE]
    /\ scanner' = "callback"
    /\ UNCHANGED <<pipe, copy, client, callbacks, authVars, proxyVars, azureVars, chainVars, lockVars, cacheVars, xformVars, modelVars>>

\* originalBody.Close() and pw.Close() after the scan loop.  When Close
\* returns an error the goroutine returns at once; a body that was read to
\* its end has nothing left that could fail.  The earlier AuditResponse
\* did not look at the error.
ClosePipe ==
    /\ scanner = "close"
    /\ respBody' = [respBody EXCEPT !.closed = TRUE]
    /\ \E err \in BOOLEAN :
         /\ err => respBody.ended = "error"
         /\ IF err /\ revision = "current"
            THEN /\ scanner' = "closefailed"
                 /\ UNCHANGED pipe
            ELSE /\ scanner' = "callback"
                 /\ pipe' = IF pipe = "open" THEN "wclosed"
                            ELSE IF pipe = "rclosed" THEN "closed" ELSE pipe
    /\ UNCHANGED <<copy, client, callbacks, authVars, proxyVars, azureVars, chainVars, lockVars, cacheVars, xformVars, modelVars>>

\* eng.ResponseCallback(resp, body), body reading respBodyBuf.
ResponseCallback ==
    /\ scanner = "callback"
    /\ callbacks' = callbacks + 1
    /\ scanner' = "returned"
    /\ UNCHANGED <<respBody, pipe, copy, client, authVars, proxyVars, azureVars, chainVars, lockVars, cacheVars, xformVars, modelVars>>

\* The client closes its connection while the response is under way.
Disconnect ==
    /\ copy.pc \in {"read", "write"}
    /\ client.connected
    /\ client' = [client EXCEPT !.connected = FALSE]
    /\ UNCHANGED <<respBody, scanner, pipe, copy, callbacks, authVars, proxyVars, azureVars, chainVars, lockVars, cacheVars, xformVars, modelVars>>

\* proxy.ServeHTTP has returned after the failed write: the server cancels
\* the context of the request, which the request to the provider shares,
\* and the transport tears the provider's connection down.
CancelRequest ==
    /\ copy.pc = "aborted"
    /\ ~respBody.closed
    /\ respBody' = [respBody EXCEPT !.closed = TRUE]
    /\ UNCHANGED <<scanner, pipe, copy, client, callbacks, authVars, proxyVars, azureVars, chainVars, lockVars, cacheVars, xformVars, modelVars>>

\* Either revision of the audit package, the rest of the program at rest.
InitAudit ==
    /\ AuthMiddleware = TRUE
    /\ disableAuth = FALSE
    /\ AuthIdle
    /\ Serving
    /\ Engines = [e \in EngineNames |-> "ok"]
    /\ revision \in {"current", "legacy"}
    /\ ProxyIdle
    /\ SideIdle

NextAudit ==
    \/ Response
    \/ Scan
    \/ PipeTransfer
    \/ PipeWriteFails
    \/ CopyWrite
    \/ CopyEOF
    \/ ClosePipe
    \/ ResponseCallback
    \/ Disconnect
    \/ CancelRequest

SpecAudit == InitAudit /\ [][NextAudit]_vars

\* The bytes the provider has emitted so far, in their order.
Emitted == [i \in 1..respBody.pos |-> i]

IsPrefix(s, t) == Len(s) <= Len(t) /\ \A i \in 1..Len(s) : s[i] = t[i]

\* C35: at every point of the response the bytes delivered to the client
\* are a prefix of the bytes the provider has emitted, in the same order:
\* none is duplicated, dropped or reordered.
C35_DeliveredIsPrefix == IsPrefix(client.received, Emitted)

\* Two bytes have reached the client and the third is on its way.
C35_Witness == Len(client.received) = 2 /\ respBody.pos = 3

\* The goroutine of audit.Response, the copy loop and the server run on
\* when they can; the provider sends its next byte, ends the body or fails.
AuditFairness ==
    /\ WF_vars(Scan)
    /\ WF_vars(PipeTransfer)
    /\ WF_vars(PipeWriteFails)
    /\ WF_vars(CopyWrite)
    /\ WF_vars(CopyEOF)
    /\ WF_vars(ClosePipe)
    /\ WF_vars(ResponseCallback)
    /\ WF_vars(CancelRequest)

SpecAuditLive == SpecAudit /\ AuditFairness

\* C12 as stated: the post-response callback has run only when the client
\* side of the response is finished: the client's connection is closed or
\* every byte taken from the provider's body has been flushed to it.
\* Refuted: the goroutine calls the callback as soon as the provider's
\* body has ended and the pipe has taken the last byte, while the copy
\* loop may still hold that byte.
C12_AsStated ==
    callbacks > 0 => (~client.connected \/ Len(client.received) = respBody.pos)

\* pw.Write fails in this step.
WriteFails == scanner = "write" /\ pipe = "rclosed" /\ scanner' # scanner

\* C26: when pw.Write fails the goroutine stops for good, and
\* eng.ResponseCallback is not invoked for that response.
C26_NoCallbackAfterWriteError ==
    /\ [][(revision = "current" /\ WriteFails) => scanner' = "failed"]_vars
    /\ [][scanner = "failed" => scanner' = "failed"]_vars
    /\ [](scanner = "failed" => callbacks = 0)

\* The client left after the first byte, the copy loop closed the pipe and
\* the write of the second byte failed.
C26_Witness ==
    /\ revision = "current"
    /\ scanner = "failed"
    /\ pipe = "rclosed"
    /\ ~client.connected
    /\ respBody.buf = 2
    /\ respBody.len = MaxBytes

\* A write to the client has failed.
ClientWriteFailed == copy.pc = "aborted"

\* The goroutine of audit.Response has returned.
ObserverReturned == scanner \in {"returned", "failed", "closefailed"}

\* C27: once a write to the client has failed, the provider's body is
\* eventually closed or its connection torn down, and the goroutine
\* returns.
C27_UpstreamReleased ==
    ClientWriteFailed ~> (respBody.closed /\ ObserverReturned)

\* The write to the pipe failed, the goroutine returned without closing
\* the body, and the cancelled request released it.
C27_Witness ==
    /\ scanner = "failed"
    /\ respBody.closed
    /\ respBody.ended = "no"
    /\ respBody.pos < respBody.len

\* The pipe's write side is closed.
WriterClosed == pipe \in {"wclosed", "closed"}

MaxMessages == 2

MaxTools == 1

Nil == "nil"

\* JSON values of tool_choice: a string (in name) or an object.
NoToolChoice == [kind |-> "absent", type |-> "", name |-> ""]

ToolChoices ==
    {[kind |-> "string", type |-> "", name |-> v] :
        v \in {"auto", "required", "any", "none", "other"}}
    \cup {[kind |-> "object", type |-> t, name |-> n] :
            t \in {"function", "other"}, n \in {"f", ""}}

\* JSON values of an element of tools.
Tools ==
    {[type |-> "function", name |-> "f", parameters |-> "object"],
     [type |-> "retrieval", name |-> "f", parameters |-> "object"],
     [type |-> "function", name |-> "", parameters |-> "object"],
     [type |-> "function", name |-> "f", parameters |-> "string"]}

\* An element of messages that carries an image: its type is "image_url",
\* and image_url tells what http.Get of the URL gives, or is absent.
ImageMessages ==
    {[role |-> "user", content |-> "t1", type |-> "image_url", image_url |-> u] :
        u \in {"fetched", "unreachable", "absent"}}

\* JSON values of an element of messages; content is a string, null, or an
\* array of parts.
Messages ==
    [role : {"system", "user"}, content : {"null", "t1", "t2", "parts"}]
    \cup ImageMessages

SeqsUpTo(S, n) == UNION {[1..k -> S] : k \in 0..n}

\* S and S with the field added to each object, for each of the values.
WithOpt(S, field, values) == S \cup {r @@ (field :> v) : r \in S, v \in values}

\* json.Unmarshal into openai_schema.IncomingChatCompletionRequest: fields
\* the struct does not declare are dropped, fields the body does not have
\* keep their zero value.
Unmarshal(json) ==
    LET has(f) == f \in DOMAIN json IN
    [Model |-> IF has("model") THEN json.model ELSE <<>>,
     Messages |-> IF has("messages") THEN json.messages ELSE <<>>,
     NilMessages |-> ~has("messages"),
     Stream |-> IF has("stream") THEN json.stream ELSE FALSE,
     Temperature |-> IF has("temperature") THEN json.temperature ELSE Nil,
     Tools |-> IF has("tools") THEN json.tools ELSE <<>>,
     ToolChoice |-> IF has("tool_choice") THEN json.tool_choice ELSE NoToolChoice,
     ReasoningEffort |-> IF has("reasoning_effort") THEN json.reasoning_effort ELSE Nil]

\* The checks of IncomingChatCompletionRequest.UnmarshalJSON after the
\* decode: messages neither null nor empty, every message with a content.
\* The roles the requests here use are all valid ones.
ValidationError(reqBody) ==
    \/ reqBody.NilMessages
    \/ reqBody.Messages = <<>>
    \/ \E i \in DOMAIN reqBody.Messages : reqBody.Messages[i].content = "null"

NoBedrockToolConfig ==
    [present |-> FALSE, tools |-> <<>>,
     toolChoice |-> [auto |-> FALSE, any |-> FALSE, tool |-> ""]]

\* transformer.go buildToolConfig
buildToolConfig(reqBody) ==
    LET valid(tool) == /\ tool.type = "function"
                       /\ tool.name # ""
                       /\ tool.parameters = "object"
        tools == SelectSeq(reqBody.Tools, valid)
        choice == reqBody.ToolChoice
        auto == [auto |-> TRUE, any |-> FALSE, tool |-> ""]
        toolChoice ==
            IF choice.kind = "string" /\ choice.name = "any"
            THEN [auto |-> FALSE, any |-> TRUE, tool |-> ""]
            ELSE IF choice.kind = "object" /\ choice.type = "function"
                    /\ choice.name # ""
            THEN [auto |-> FALSE, any |-> FALSE, tool |-> choice.name]
            ELSE auto
    IN  IF Len(reqBody.Tools) = 0 \/ Len(tools) = 0 THEN NoBedrockToolConfig
        ELSE [present |-> TRUE,
              tools |-> [i \in 1..Len(tools) |-> tools[i].name],
              toolChoice |-> toolChoice]

\* message.Type != nil && *message.Type == "image_url"
IsImage(message) == "type" \in DOMAIN message /\ message.type = "image_url"

\* transformer.go transformMessages: a message without content leaves the
\* zero Message in its place, content that is no string makes no block, an
\* image that was fetched makes a block of format jpeg.
transformMessages(messages) ==
    [i \in 1..Len(messages) |->
        IF messages[i].content = "null" THEN [role |-> "", content |-> <<>>]
        ELSE [role |-> messages[i].role,
              content |-> (IF messages[i].content = "parts" THEN <<>>
                           ELSE <<messages[i].content>>)
                          \o (IF IsImage(messages[i]) THEN <<"jpeg">> ELSE <<>>)]]

\* transformMessages panics: http.Get of the image's URL fails and the
\* error is passed to panic, or the message has no image_url and
\* message.ImageURL.URL dereferences nil.
transformMessagesPanics(messages) ==
    \E i \in 1..Len(messages) :
        /\ messages[i].content # "null"
        /\ IsImage(messages[i])
        /\ messages[i].image_url # "fetched"

\* transformer.go buildInferenceConfig
buildInferenceConfig(reqBody) ==
    [temperature |-> IF reqBody.Temperature # Nil THEN reqBody.Temperature ELSE "0.7",
     top_p |-> "1.0"]

NoThinkingConfig == [present |-> FALSE, type |-> "", budgetTokens |-> 0]

\* A mis-translation of buildThinkingConfig with one budget for every level.
buildThinkingConfig_flat(reqBody) ==
    IF reqBody.ReasoningEffort = Nil THEN NoThinkingConfig
    ELSE [present |-> TRUE, type |-> "enabled", budgetTokens |-> 8192]

\* transformer.go buildThinkingConfig
buildThinkingConfig(reqBody) ==
    IF reqBody.ReasoningEffort = Nil THEN NoThinkingConfig
    ELSE [present |-> TRUE, type |-> "enabled",
          budgetTokens |->
              CASE reqBody.ReasoningEffort = "low" -> 2048
                [] reqBody.ReasoningEffort = "medium" -> 8192
                [] reqBody.ReasoningEffort = "high" -> 32768
                [] OTHER -> 8192]

\* A mis-translation of the Bedrock request with a thinking member that
\* is not left out when there is no config.
BedrockTransformChatCompletionRequest_thinking(reqBody) ==
    [panicked |-> FALSE,
     body |-> [messages |-> transformMessages(reqBody.Messages),
               inferenceConfig |-> buildInferenceConfig(reqBody),
               system |-> <<"You are an assistant.">>,
               thinking |-> buildThinkingConfig(reqBody)]]

\* BedrockProxy.TransformChatCompletionRequest: the members of the JSON
\* document sent to Converse, or a panic of the handler's goroutine.
BedrockTransformChatCompletionRequest(reqBody) ==
    LET messages == transformMessages(reqBody.Messages)
        toolConfig == buildToolConfig(reqBody)
        request(ms, system) ==
            LET r == [messages |-> ms,
                      inferenceConfig |-> buildInferenceConfig(reqBody),
                      system |-> <<system>>]
            IN  IF toolConfig.present THEN r @@ ("toolConfig" :> toolConfig) ELSE r
    IN  IF transformMessagesPanics(reqBody.Messages)
        THEN [panicked |-> TRUE, body |-> [panic |-> "image"]]
        ELSE IF Len(messages) = 0 THEN [panicked |-> TRUE, body |-> [panic |-> "index"]]
        ELSE IF messages[1].role = "system"
        THEN IF Len(messages[1].content) = 0
             THEN [panicked |-> TRUE, body |-> [panic |-> "index"]]
             ELSE [panicked |-> FALSE,
                   body |-> request(Tail(messages), messages[1].content[1])]
        ELSE [panicked |-> FALSE,
              body |-> request(messages, "You are an assistant.")]

\* OpenAIProxy.TransformChatCompletionRequest: json.Marshal of the struct
\* with the model's prefix taken off.
OpenAITransformChatCompletionRequest(reqBody) ==
    LET always == [model |-> TrimPrefix(reqBody.Model, <<"openai", "/">>),
                   messages |-> IF reqBody.NilMessages THEN <<"null">>
                                ELSE reqBody.Messages,
                   stream |-> reqBody.Stream]
        temperature == IF reqBody.Temperature = Nil THEN always
                       ELSE always @@ ("temperature" :> reqBody.Temperature)
        tools == IF Len(reqBody.Tools) = 0 THEN temperature
                 ELSE temperature @@ ("tools" :> reqBody.Tools)
    IN  IF reqBody.ToolChoice = NoToolChoice THEN tools
        ELSE tools @@ ("tool_choice" :> reqBody.ToolChoice)

\* The request bodies translated for Bedrock.
BedrockChats ==
    LET base == {[model |-> <<"bedrock", "/", "m">>, messages |-> ms] :
                    ms \in SeqsUpTo(Messages, MaxMessages)}
    IN  WithOpt(WithOpt(WithOpt(base, "tools", SeqsUpTo(Tools, MaxTools)),
                        "tool_choice", ToolChoices),
                "reasoning_effort", {"high"})

\* The request bodies translated for OpenAI; seed is a member the struct
\* does not declare.
OpenAIChats ==
    LET base == {[model |-> m] : m \in {<<"openai", "/", "m">>, <<"gpt-", "4o">>}}
    IN  WithOpt(WithOpt(WithOpt(WithOpt(base, "messages", SeqsUpTo(Messages, 1)),
                                "stream", BOOLEAN),
                        "temperature", {"0.2"}),
                "seed", {"7"})

\* The request bodies buildThinkingConfig is asked about.
EffortChats ==
    WithOpt({[model |-> <<"bedrock", "/", "m">>]}, "reasoning_effort",
            {"low", "medium", "high", "max", ""})

TransformBedrock ==
    /\ transformed.op = "none"
    /\ \E json \in BedrockChats :
         /\ chat' = json
         /\ transformed' =
                IF ValidationError(Unmarshal(json))
                THEN [op |-> "rejected"]
                ELSE [op |-> "bedrock"]
                     @@ BedrockTransformChatCompletionRequest(Unmarshal(json))
    /\ UNCHANGED <<authVars, proxyVars, azureVars, chainVars, lockVars, cacheVars, auditVars, modelVars>>

TransformOpenAI ==
    /\ transformed.op = "none"
    /\ \E json \in OpenAIChats :
         /\ chat' = json
         /\ transformed' =
                IF ValidationError(Unmarshal(json))
                THEN [op |-> "rejected"]
                ELSE [op |-> "openai",
                      body |-> OpenAITransformChatCompletionRequest(Unmarshal(json))]
    /\ UNCHANGED <<authVars, proxyVars, azureVars, chainVars, lockVars, cacheVars, auditVars, modelVars>>

BuildThinkingConfig ==
    /\ transformed.op = "none"
    /\ \E json \in EffortChats :
         /\ chat' = json
         /\ transformed' = [op |-> "thinking",
                config |-> buildThinkingConfig(Unmarshal(json))]
    /\ UNCHANGED <<authVars, proxyVars, azureVars, chainVars, lockVars, cacheVars, auditVars, modelVars>>

TransformDone ==
    /\ transformed.op # "none"
    /\ chat' = [model |-> <<>>]
    /\ transformed' = [op |-> "none"]
    /\ UNCHANGED <<authVars, proxyVars, azureVars, chainVars, lockVars, cacheVars, auditVars, modelVars>>

InitTransform == Quiescent /\ SideIdle

NextTransform ==
    \/ TransformBedrock
    \/ TransformOpenAI
    \/ BuildThinkingConfig
    \/ TransformDone

SpecTransform == InitTransform /\ [][NextTransform]_vars

HasField(json, f) == f \in DOMAIN json

\* C40: for every request the parser accepts the translation for Bedrock
\* returns a body or an error and does not panic, whatever the content of
\* the messages and whether or not an image can be fetched.
C40_AsStated == transformed.op = "bedrock" => ~transformed.panicked

\* C15: buildThinkingConfig returns no config when reasoning_effort is
\* absent, and otherwise a config of type "enabled" with a budget of 2048
\* tokens for "low", 8192 for "medium", 32768 for "high" and 8192 for any
\* other value.
C15_ThinkingBudgets ==
    transformed.op = "thinking"
    => IF ~HasField(chat, "reasoning_effort") THEN ~transformed.config.present
       ELSE /\ transformed.config.present
            /\ transformed.config.type = "enabled"
            /\ chat.reasoning_effort = "low" => transformed.config.budgetTokens = 2048
            /\ chat.reasoning_effort = "medium" => transformed.config.budgetTokens = 8192
            /\ chat.reasoning_effort = "high" => transformed.config.budgetTokens = 32768
            /\ chat.reasoning_effort \notin {"low", "medium", "high"}
                  => transformed.config.budgetTokens = 8192

\* buildThinkingConfig has been asked about "high".
C15_Witness ==
    /\ transformed.op = "thinking"
    /\ HasField(chat, "reasoning_effort")
    /\ chat.reasoning_effort = "high"
    /\ transformed.config.budgetTokens = 32768

BedrockTranslated == transformed.op = "bedrock" /\ ~transformed.panicked

\* C13 as stated: the body made for Bedrock of a request that sets
\* reasoning_effort has a thinking member of type "enabled" with the budget
\* of the level (32768 for "high").  Refuted: TransformChatCompletionRequest
\* never calls buildThinkingConfig and the request has no such member.
C13_AsStated ==
    (BedrockTranslated /\ HasField(chat, "reasoning_effort")
        /\ chat.reasoning_effort = "high")
    => /\ HasField(transformed.body, "thinking")
       /\ transformed.body.thinking.type = "enabled"
       /\ transformed.body.thinking.budgetTokens = 32768

\* C14: the body made for Bedrock of a request that does not set
\* reasoning_effort has no thinking member.
C14_NoThinkingWithoutEffort ==
    (BedrockTranslated /\ ~HasField(chat, "reasoning_effort"))
    => ~HasField(transformed.body, "thinking")

\* A request without reasoning_effort, with a user message, was translated.
C14_Witness ==
    /\ BedrockTranslated
    /\ ~HasField(chat, "reasoning_effort")
    /\ chat.messages = <<[role |-> "user", content |-> "t1"]>>
    /\ transformed.body.messages = <<[role |-> "user", content |-> <<"t1">>]>>

\* The messages all carry text.
AllText(messages) ==
    \A i \in DOMAIN messages : messages[i].content \in {"t1", "t2"}

Without(messages, i) ==
    SubSeq(messages, 1, i - 1) \o SubSeq(messages, i + 1, Len(messages))

\* C16 as stated, for messages that all carry text: when a message of role
\* system is among them at any position, the first such message is taken
\* out of the list and its text is the system entry; when there is none,
\* the system entry is "You are an assistant.".  Refuted: only a system
\* message in the first position is looked at.
C16_AsStated ==
    (transformed.op = "bedrock" /\ AllText(chat.messages))
    => LET ms == chat.messages
           sys == {i \in DOMAIN ms : ms[i].role = "system"}
       IN  /\ ~transformed.panicked
           /\ IF sys = {}
              THEN /\ transformed.body.system = <<"You are an assistant.">>
                   /\ transformed.body.messages = transformMessages(ms)
              ELSE LET first == CHOOSE i \in sys : \A j \in sys : i <= j
                   IN  /\ transformed.body.system = <<ms[first].content>>
                       /\ transformed.body.messages
                              = transformMessages(Without(ms, first))

\* C17 as stated: with at least one valid function tool, tool_choice is
\* translated "auto" to auto, "required" to any, "none" to auto,
\* {type: function, function: {name}} to tool with that name, absent to
\* auto.  Refuted: the string the code maps to any is "any"; "required"
\* falls to the default, auto.
C17_AsStated ==
    (BedrockTranslated /\ HasField(chat, "tools")
        /\ \E i \in DOMAIN chat.tools :
              chat.tools[i] = [type |-> "function", name |-> "f",
                               parameters |-> "object"])
    => LET choice == IF HasField(chat, "tool_choice") THEN chat.tool_choice
                     ELSE NoToolChoice
           auto == [auto |-> TRUE, any |-> FALSE, tool |-> ""]
           is(v) == choice.kind = "string" /\ choice.name = v
       IN  /\ HasField(transformed.body, "toolConfig")
           /\ (choice.kind = "absent" \/ is("auto") \/ is("none"))
                 => transformed.body.toolConfig.toolChoice = auto
           /\ is("required")
                 => transformed.body.toolConfig.toolChoice
                        = [auto |-> FALSE, any |-> TRUE, tool |-> ""]
           /\ (choice.kind = "object" /\ choice.type = "function" /\ choice.name # "")
                 => transformed.body.toolConfig.toolChoice
                        = [auto |-> FALSE, any |-> FALSE, tool |-> choice.name]

\* C18 as stated, for a body that names a model without prefix and has
\* a stream member: the body forwarded to OpenAI equals the body
\* received, no member added, dropped or changed.  Refuted: the body is
\* decoded into IncomingChatCompletionRequest and encoded again, and every
\* member the struct does not declare is lost.
C18_AsStated ==
    (transformed.op = "openai" /\ ~HasPrefix(chat.model, <<"openai", "/">>)
        /\ HasField(chat, "stream"))
    => transformed.body = chat

(***************************************************************************)
(* Model discovery: BedrockEngine.ListModels.  The upstream answer is the  *)
(* list of model summaries of the foundation-models endpoint; the call     *)
(* holds cachedModelsLock from its check of the cache to its return, so    *)
(* it is one step.                                                         *)
(***************************************************************************)
MaxSummaries == 2

ModelSummaries ==
    [ModelId : {"m1", "m2"},
     Status : {"ACTIVE", "LEGACY"},
     ResponseStreamingSupported : BOOLEAN,
     InferenceTypesSupported : {<<"ON_DEMAND">>, <<"PROVISIONED">>,
                                <<"PROVISIONED", "ON_DEMAND">>}]

CR_INFERENCE_PREFIX == "us"

\* The loop over inferenceTypesSupported.
isOnDemand(summary) ==
    \E i \in DOMAIN summary.InferenceTypesSupported :
        summary.InferenceTypesSupported[i] = "ON_DEMAND"

\* The models ListModels makes of one summary.
ModelsOf(summary) ==
    IF ~summary.ResponseStreamingSupported \/ summary.Status # "ACTIVE"
    THEN <<>>
    ELSE (IF isOnDemand(summary)
          THEN <<[ID |-> <<"bedrock", "/", summary.ModelId>>]>>
          ELSE <<>>)
         \o (IF CR_INFERENCE_PREFIX # ""
             THEN <<[ID |-> <<"bedrock", "/", CR_INFERENCE_PREFIX, ".",
                              summary.ModelId>>]>>
             ELSE <<>>)

RECURSIVE FilterModels(_)
\* The loop over fmResp.ModelSummaries.
FilterModels(summaries) ==
    IF summaries = <<>> THEN <<>>
    ELSE ModelsOf(Head(summaries)) \o FilterModels(Tail(summaries))

\* How the fetch ends: answered, credentials not retrievable, a status
\* other than 200, a body that does not decode.
FetchOutcomes == {"ok", "credentials", "status", "decode"}

\* The BedrockEngine instances ListModels is called on: GetEngine makes one
\* per key and a new one when an entry has expired.  cachedModels,
\* cachedModelsTime and cachedModelsLock are variables of the package, one
\* for all of them.
BedrockEngines == Callers

\* ListModels: answer from the cache while it is set and recent; otherwise
\* fetch, filter and remember.
ListModels ==
    /\ listing.op = "none"
    /\ \E e \in BedrockEngines :
       IF ~cachedModels.nil /\ cachedModels.fresh
       THEN /\ listing' = [op |-> "listed", e |-> e, fetched |-> FALSE, err |-> FALSE,
                           summaries |-> <<>>, models |-> cachedModels.models]
            /\ UNCHANGED cachedModels
       ELSE \E outcome \in FetchOutcomes, summaries \in SeqsUpTo(ModelSummaries, MaxSummaries) :
              IF outcome # "ok"
              THEN /\ listing' = [op |-> "listed", e |-> e, fetched |-> TRUE, err |-> TRUE,
                                  summaries |-> <<>>, models |-> <<>>]
                   /\ UNCHANGED cachedModels
              ELSE LET models == FilterModels(summaries) IN
                   /\ listing' = [op |-> "listed", e |-> e, fetched |-> TRUE, err |-> FALSE,
                                  summaries |-> summaries, models |-> models]
                   /\ cachedModels' = [nil |-> models = <<>>, models |-> models,
                                       fresh |-> TRUE, by |-> e]
    /\ UNCHANGED <<listers, authVars, proxyVars, azureVars, chainVars, lockVars, cacheVars, auditVars, xformVars>>

\* cacheValidityTime passes.
CacheExpires ==
    /\ cachedModels.fresh
    /\ cachedModels' = [cachedModels EXCEPT !.fresh = FALSE]
    /\ UNCHANGED <<listing, listers, authVars, proxyVars, azureVars, chainVars, lockVars, cacheVars, auditVars, xformVars>>

\* The caller has its answer.
ListModelsDone ==
    /\ listing.op = "listed"
    /\ listing' = [op |-> "none"]
    /\ UNCHANGED <<cachedModels, listers, authVars, proxyVars, azureVars, chainVars, lockVars, cacheVars, auditVars, xformVars>>

InitModels == Quiescent /\ SideIdle

NextModels == ListModels \/ CacheExpires \/ ListModelsDone

SpecModels == InitModels /\ [][NextModels]_vars

(***************************************************************************)
(* ListModels under concurrent callers.  A call tests the cache under the  *)
(* read lock; on a miss it takes the write lock, tests again, and fetches  *)
(* and stores the list before the lock is released, so that no other call  *)
(* sees the cache in between.  OpenAIEngine.ListModels is written the same *)
(* way.  Caller c calls ListModels on the engine numbered c.               *)
(***************************************************************************)
\* The test ListModels makes of the cache: cachedModels != nil and
\* time.Since(cachedModelsTime) < cacheValidityTime.
Cached == ~cachedModels.nil /\ cachedModels.fresh

\* ListModels up to RUnlock.
ListModelsRead(c) ==
    /\ listers[c].pc = "idle"
    /\ listers' = [listers EXCEPT ![c] =
                     IF Cached
                     THEN [NoLister EXCEPT !.pc = "done", !.models = cachedModels.models]
                     ELSE [NoLister EXCEPT !.pc = "lock"]]
    /\ UNCHANGED <<cachedModels, listing, authVars, proxyVars, azureVars, chainVars, lockVars, cacheVars,
                   auditVars, xformVars>>

\* ListModels from Lock to the deferred Unlock: the second test, and on a
\* miss the fetch, the filter and the update of the cache.
ListModelsFetch(c) ==
    /\ listers[c].pc = "lock"
    /\ IF Cached
       THEN /\ listers' = [listers EXCEPT ![c] =
                  [NoLister EXCEPT !.pc = "done", !.models = cachedModels.models]]
            /\ UNCHANGED cachedModels
       ELSE \E outcome \in FetchOutcomes, summaries \in SeqsUpTo(ModelSummaries, MaxSummaries) :
              IF outcome # "ok"
              THEN /\ listers' = [listers EXCEPT ![c] =
                         [NoLister EXCEPT !.pc = "done", !.fetched = TRUE, !.err = TRUE]]
                   /\ UNCHANGED cachedModels
              ELSE LET models == FilterModels(summaries) IN
                   /\ listers' = [listers EXCEPT ![c] =
                         [NoLister EXCEPT !.pc = "done", !.fetched = TRUE,
                                          !.models = models]]
                   /\ cachedModels' = [nil |-> models = <<>>, models |-> models,
                                       fresh |-> TRUE, by |-> c]
    /\ UNCHANGED <<listing, authVars, proxyVars, azureVars, chainVars, lockVars, cacheVars, auditVars, xformVars>>

\* The caller has its answer.
ListModelsReturn(c) ==
    /\ listers[c].pc = "done"
    /\ listers' = [listers EXCEPT ![c] = NoLister]
    /\ UNCHANGED <<cachedModels, listing, authVars, proxyVars, azureVars, chainVars, lockVars, cacheVars,
                   auditVars, xformVars>>

NextListers ==
    \/ \E c \in Callers : ListModelsRead(c)
    \/ \E c \in Callers : ListModelsFetch(c)
    \/ \E c \in Callers : ListModelsReturn(c)
    \/ CacheExpires

SpecListers == InitModels /\ [][NextListers]_vars

\* The call fetches the list from the provider in this step.
Fetches(c) ==
    listers[c].pc = "lock" /\ listers'[c].pc = "done" /\ listers'[c].fetched

\* C28 as stated: at most one fetch is sent to the provider per validity
\* window of the cache, so that no call fetches while the time of the last
\* completed fetch is less than cacheValidityTime ago.  Refuted: a fetch
\* that yields no model leaves cachedModels nil, and every call fetches
\* again.
C28_AsStated ==
    [][\A c \in Callers : Fetches(c) => ~cachedModels.fresh]_vars

\* C34: the list ListModels returns from the cache was fetched by the
\* engine it is called on, never by another instance.
C34_AsStated ==
    (listing.op = "listed" /\ ~listing.fetched) => cachedModels.by = listing.e

PassesFilters(summary) ==
    /\ summary.Status = "ACTIVE"
    /\ summary.ResponseStreamingSupported
    /\ isOnDemand(summary)

\* C19 as stated: every id ListModels returns after a fetch, the us.
\* variants included, is the id of an upstream model that is ACTIVE,
\* supports response streaming and supports ON_DEMAND inference.  Refuted:
\* the us. variant is appended outside the ON_DEMAND test.
C19_AsStated ==
    (listing.op = "listed" /\ listing.fetched /\ ~listing.err)
    => \A i \in DOMAIN listing.models :
          \E j \in DOMAIN listing.summaries :
             LET summary == listing.summaries[j] IN
             /\ PassesFilters(summary)
             /\ listing.models[i].ID \in
                   {<<"bedrock", "/", summary.ModelId>>,
                    <<"bedrock", "/", "us", ".", summary.ModelId>>}

(***************************************************************************)
(* EngineCache.GetEngine under concurrent callers.  A call reads the map   *)
(* under the read lock; on a miss it takes the write lock, looks again,    *)
(* and constructs and stores the adapter while it holds the lock.          *)
(***************************************************************************)
Valid_always(cached, now) == cached.exists

\* The test GetEngine makes of an entry: it exists and
\* time.Since(cached.CreatedAt) < ec.cacheTTL.
Valid(cached, now) == cached.exists /\ now - cached.CreatedAt < cacheTTL

\* GetEngine returns the adapter of an entry.
Hit(call, cached) ==
    [call EXCEPT !.pc = "done", !.Engine = cached.Engine, !.returned = clock]

\* GetEngine up to RUnlock: the entry is returned when it is valid.
GetEngineRead(c) ==
    /\ calls[c].pc = "idle"
    /\ mutex = 0
    /\ \E key \in CacheKeys :
         LET call == [NoCall EXCEPT !.key = key, !.arrived = clock] IN
         calls' = [calls EXCEPT ![c] =
                      IF Valid(cache[key], clock) THEN Hit(call, cache[key])
                      ELSE [call EXCEPT !.pc = "lock", !.missed = TRUE]]
    /\ UNCHANGED <<clock, cache, mutex, constructed, authVars, proxyVars, azureVars, chainVars, lockVars,
                   auditVars, xformVars, modelVars>>

GetEngineLock_unchecked(c) ==
    /\ calls[c].pc = "lock"
    /\ mutex = 0
    /\ mutex' = c
    /\ calls' = [calls EXCEPT ![c].pc = "create"]
    /\ UNCHANGED <<clock, cache, constructed, authVars, proxyVars, azureVars, chainVars, lockVars,
                   auditVars, xformVars, modelVars>>

\* GetEngine from ec.mutex.Lock() to the second look at the map: an entry
\* that has become valid is returned and the deferred Unlock runs.
GetEngineLock(c) ==
    /\ calls[c].pc = "lock"
    /\ mutex = 0
    /\ IF Valid(cache[calls[c].key], clock)
       THEN /\ calls' = [calls EXCEPT ![c] = Hit(@, cache[calls[c].key])]
            /\ UNCHANGED mutex
       ELSE /\ calls' = [calls EXCEPT ![c].pc = "create"]
            /\ mutex' = c
    /\ UNCHANGED <<clock, cache, constructed, authVars, proxyVars, azureVars, chainVars, lockVars,
                   auditVars, xformVars, modelVars>>

GetEngineCreate_cachesFailure(c) ==
    /\ calls[c].pc = "create"
    /\ mutex = c
    /\ LET key == calls[c].key
           made == createEngine(Engines, key[1])
           serial == Len(constructed[key]) + 1
       IN  IF made.failed
           THEN /\ calls' = [calls EXCEPT ![c].pc = "done", ![c].err = TRUE,
                                          ![c].returned = clock]
                /\ cache' = [cache EXCEPT ![key] =
                                [exists |-> TRUE, Engine |-> 0, CreatedAt |-> clock]]
                /\ UNCHANGED constructed
           ELSE /\ cache' = [cache EXCEPT ![key] =
                                [exists |-> TRUE, Engine |-> serial,
                                 CreatedAt |-> clock]]
                /\ constructed' = [constructed EXCEPT ![key] = Append(@, clock)]
                /\ calls' = [calls EXCEPT ![c].pc = "done", ![c].Engine = serial,
                                          ![c].returned = clock]
    /\ mutex' = 0
    /\ UNCHANGED <<clock, authVars, proxyVars, azureVars, chainVars, lockVars, auditVars, xformVars, modelVars>>

\* GetEngine from createEngine to its return: the new adapter is stored
\* with time.Now(), or the error is returned and nothing stored.
GetEngineCreate(c) ==
    /\ calls[c].pc = "create"
    /\ mutex = c
    /\ LET key == calls[c].key
           made == createEngine(Engines, key[1])
           serial == Len(constructed[key]) + 1
       IN  IF made.failed
           THEN /\ calls' = [calls EXCEPT ![c].pc = "done", ![c].err = TRUE,
                                          ![c].returned = clock]
                /\ UNCHANGED <<cache, constructed>>
           ELSE /\ cache' = [cache EXCEPT ![key] =
                                [exists |-> TRUE, Engine |-> serial,
                                 CreatedAt |-> clock]]
                /\ constructed' = [constructed EXCEPT ![key] = Append(@, clock)]
                /\ calls' = [calls EXCEPT ![c].pc = "done", ![c].Engine = serial,
                                          ![c].returned = clock]
    /\ mutex' = 0
    /\ UNCHANGED <<clock, authVars, proxyVars, azureVars, chainVars, lockVars, auditVars, xformVars, modelVars>>

\* The caller of GetEngine goes on with what it got.
GetEngineDone(c) ==
    /\ calls[c].pc = "done"
    /\ calls' = [calls EXCEPT ![c] = NoCall]
    /\ UNCHANGED <<clock, cache, mutex, constructed, authVars, proxyVars, azureVars, chainVars, lockVars,
                   auditVars, xformVars, modelVars>>

\* EngineCache.InvalidateCache, called by the cleanup routine on every tick
\* of its ticker: entries as old as cacheTTL are deleted.
InvalidateCache ==
    /\ mutex = 0
    /\ \E k \in CacheKeys : cache[k].exists /\ clock - cache[k].CreatedAt >= cacheTTL
    /\ cache' = [k \in CacheKeys |->
                    IF cache[k].exists /\ clock - cache[k].CreatedAt >= cacheTTL
                    THEN NoEntry ELSE cache[k]]
    /\ UNCHANGED <<clock, mutex, calls, constructed, authVars, proxyVars, azureVars, chainVars, lockVars,
                   auditVars, xformVars, modelVars>>

\* Time passes.
Tick ==
    /\ clock < MaxClock
    /\ clock' = clock + 1
    /\ UNCHANGED <<cache, mutex, calls, constructed, authVars, proxyVars, azureVars, chainVars, lockVars,
                   auditVars, xformVars, modelVars>>

\* The configuration has every engine credentialed, or Bedrock disabled so
\* that createEngine fails for it.
InitCache ==
    /\ AuthMiddleware = TRUE
    /\ disableAuth = FALSE
    /\ AuthIdle
    /\ Serving
    /\ \E profile \in {"ok", "disabled"} :
          Engines = [e \in EngineNames |-> IF e = "bedrock" THEN profile ELSE "ok"]
    /\ revision = "current"
    /\ ProxyIdle
    /\ SideIdle

NextCache ==
    \/ \E c \in Callers : GetEngineRead(c)
    \/ \E c \in Callers : GetEngineLock(c)
    \/ \E c \in Callers : GetEngineCreate(c)
    \/ \E c \in Callers : GetEngineDone(c)
    \/ InvalidateCache
    \/ Tick

SpecCache == InitCache /\ [][NextCache]_vars

\* The call has returned an adapter after missing the cache on arrival.
ReturnedAfterMiss(c) ==
    calls[c].pc = "done" /\ calls[c].missed /\ ~calls[c].err

Earlier(a, b) == IF a <= b THEN a ELSE b

Later(a, b) == IF a >= b THEN a ELSE b

\* Two calls for one key that both missed the cache and lie, from arrival
\* to return, within one TTL window.
SameWindow(c1, c2) ==
    /\ c1 # c2
    /\ ReturnedAfterMiss(c1) /\ ReturnedAfterMiss(c2)
    /\ calls[c1].key = calls[c2].key
    /\ Later(calls[c1].returned, calls[c2].returned)
          - Earlier(calls[c1].arrived, calls[c2].arrived) < cacheTTL

\* C25: calls of GetEngine for one key that find no valid entry and lie
\* within one TTL window return the same adapter instance, and exactly one
\* adapter was constructed for the key in that span.
C25_SingleConstruction ==
    \A c1, c2 \in Callers :
        SameWindow(c1, c2)
        => LET key == calls[c1].key
               from == Earlier(calls[c1].arrived, calls[c2].arrived)
               to == Later(calls[c1].returned, calls[c2].returned)
           IN  /\ calls[c1].Engine = calls[c2].Engine
               /\ Cardinality({i \in DOMAIN constructed[key] :
                                  constructed[key][i] \in from..to}) = 1

\* Two calls missed the cache together; one constructed the adapter and
\* the other found it on its second look.
C25_Witness ==
    \E c1, c2 \in Callers :
        /\ SameWindow(c1, c2)
        /\ calls[c1].arrived = calls[c2].arrived
        /\ calls[c1].Engine # 0
        /\ calls[c1].returned < calls[c2].returned

\* C30: every adapter GetEngine returns was created less than cacheTTL
\* before the moment of the return.
C30_NeverStale ==
    \A c \in Callers :
        (calls[c].pc = "done" /\ ~calls[c].err)
        => LET CreatedAt == constructed[calls[c].key][calls[c].Engine] IN
           /\ CreatedAt <= calls[c].returned
           /\ calls[c].returned - CreatedAt < cacheTTL

\* A call found an entry as old as cacheTTL and got a second adapter,
\* constructed in its place.
C30_Witness ==
    \E c \in Callers :
        /\ calls[c].pc = "done"
        /\ calls[c].Engine = 2
        /\ constructed[calls[c].key][2] = calls[c].returned
        /\ constructed[calls[c].key][2] - constructed[calls[c].key][1] >= cacheTTL

\* createEngine fails for the engine type of the key.
Unconstructible(key) == createEngine(Engines, key[1]).failed

\* C33: a call of GetEngine for a key whose adapter cannot be constructed
\* returns an error and no adapter, having gone to createEngine itself, and
\* the cache holds no entry for the key: no later call finds a cached
\* failure or an old instance in its place.
C33_FailureNotCached ==
    \A c \in Callers :
        (calls[c].pc = "done" /\ Unconstructible(calls[c].key))
        => /\ calls[c].err
           /\ calls[c].Engine = 0
           /\ calls[c].missed
           /\ ~cache[calls[c].key].exists

\* A call failed, and a call for the same key that arrived after the
\* failure was returned has failed in its turn.
C33_Witness ==
    \E c1, c2 \in Callers :
        /\ calls[c1].pc = "done" /\ calls[c1].err
        /\ calls[c2].pc = "done" /\ calls[c2].err
        /\ calls[c1].key = calls[c2].key
        /\ calls[c2].arrived > calls[c1].returned

(***************************************************************************)
(* AzureOpenAIEngine.  engineMiddleware calls                              *)
(* NewAzureOpenAIEngineWithConfig for every request whose first path       *)
(* segment is azure, so each request has an engine, a list of              *)
(* BackendConfig and a health-check goroutine of its own.  The goroutine   *)
(* and the request run concurrently; IsActive is a plain bool, Connections *)
(* is read and written with sync/atomic.                                   *)
(***************************************************************************)

\* NewAzureOpenAIEngineWithConfig: every backend of the configuration starts
\* active with no connection; startHealthCheck starts the goroutine, which
\* waits for its ticker.  The request goes on to reverseProxy, which calls
\* ModifyRequest and with it selectLeastLoadedBackend.
NewAzureOpenAIEngineWithConfig(r) ==
    /\ azure[r].pc = "idle"
    /\ azure' = [azure EXCEPT ![r] =
                    [@ EXCEPT !.pc = "select",
                              !.backends = [b \in Backends |->
                                               [IsActive |-> TRUE, Connections |-> 0]],
                              !.probe = [pc |-> "tick", b |-> 0, ok |-> FALSE],
                              !.i = 1]]
    /\ UNCHANGED <<authVars, proxyVars, auditVars, xformVars, modelVars, cacheVars,
                   chainVars, lockVars>>

\* startHealthCheck, the goroutine: on a tick it probes the backends in
\* order.  isBackendAvailable answers for the next backend.
isBackendAvailable(r) ==
    /\ azure[r].probe.pc \in {"tick", "probe"}
    /\ \E ok \in BOOLEAN :
          azure' = [azure EXCEPT ![r].probe =
                       [pc |-> "store",
                        b |-> IF azure[r].probe.pc = "tick" THEN 1 ELSE azure[r].probe.b,
                        ok |-> ok]]
    /\ UNCHANGED <<authVars, proxyVars, auditVars, xformVars, modelVars, cacheVars,
                   chainVars, lockVars>>

\* startHealthCheck, line 153: the plain store into backend.IsActive.  The
\* goroutine never ends: after the last backend it waits for the next tick.
startHealthCheck(r) ==
    /\ azure[r].probe.pc = "store"
    /\ LET b == azure[r].probe.b
       IN  azure' = [azure EXCEPT
                        ![r].backends[b].IsActive = azure[r].probe.ok,
                        ![r].probe = IF b < MaxBackends
                                     THEN [pc |-> "probe", b |-> b + 1, ok |-> FALSE]
                                     ELSE [pc |-> "tick", b |-> 0, ok |-> FALSE]]
    /\ UNCHANGED <<authVars, proxyVars, auditVars, xformVars, modelVars, cacheVars,
                   chainVars, lockVars>>

\* selectLeastLoadedBackend, one turn of its loop: the plain load of
\* backend.IsActive and the atomic load of backend.Connections.  The load of
\* IsActive is not ordered with the goroutine's store; for a bool the value
\* loaded is the one before or the one after the store, which is what the
\* interleaving of the two actions gives.  minConnections starts at the
\* largest int64, which no counter reaches: the first active backend is
\* always taken.
SelectLoop(r) ==
    /\ azure[r].pc = "select"
    /\ azure[r].i <= MaxBackends
    /\ LET i == azure[r].i
           backend == azure[r].backends[i]
           less == azure[r].selected = 0 \/ backend.Connections < azure[r].minConnections
       IN  azure' = [azure EXCEPT ![r] =
                        [@ EXCEPT !.i = i + 1,
                                  !.seen[i] = backend.IsActive,
                                  !.selected = IF backend.IsActive /\ less THEN i ELSE @,
                                  !.minConnections = IF backend.IsActive /\ less
                                                     THEN backend.Connections ELSE @]]
    /\ UNCHANGED <<authVars, proxyVars, auditVars, xformVars, modelVars, cacheVars,
                   chainVars, lockVars>>

\* selectLeastLoadedBackend, after the loop: the backend selected, or the
\* first backend when none was seen active.
selectLeastLoadedBackend(r) ==
    /\ azure[r].pc = "select"
    /\ azure[r].i > MaxBackends
    /\ azure' = [azure EXCEPT ![r] =
                    [@ EXCEPT !.pc = "add",
                              !.backend = IF azure[r].selected = 0 THEN 1
                                          ELSE azure[r].selected]]
    /\ UNCHANGED <<authVars, proxyVars, auditVars, xformVars, modelVars, cacheVars,
                   chainVars, lockVars>>

\* ModifyRequest, line 102: atomic.AddInt64(&backend.Connections, 1).
AddConnection(r) ==
    /\ azure[r].pc = "add"
    /\ azure' = [azure EXCEPT ![r].pc = "rewrite",
                              ![r].backends[azure[r].backend].Connections = @ + 1]
    /\ UNCHANGED <<authVars, proxyVars, auditVars, xformVars, modelVars, cacheVars,
                   chainVars, lockVars>>

\* ModifyRequest returns after rewriting the URL and the headers: the
\* deferred atomic.AddInt64(&backend.Connections, -1) of line 103 runs, and
\* reverseProxy hands the request to proxy.ServeHTTP, which sends it to
\* the backend.
ModifyRequestReturns(r) ==
    /\ azure[r].pc = "rewrite"
    /\ azure' = [azure EXCEPT ![r].pc = "upstream",
                              ![r].backends[azure[r].backend].Connections = @ - 1]
    /\ UNCHANGED <<authVars, proxyVars, auditVars, xformVars, modelVars, cacheVars,
                   chainVars, lockVars>>

\* The backend has answered and the response has been relayed.
RequestCompletes(r) ==
    /\ azure[r].pc = "upstream"
    /\ azure' = [azure EXCEPT ![r].pc = "done"]
    /\ UNCHANGED <<authVars, proxyVars, auditVars, xformVars, modelVars, cacheVars,
                   chainVars, lockVars>>

InitAzure ==
    /\ AuthMiddleware = TRUE
    /\ disableAuth = FALSE
    /\ AuthIdle
    /\ Serving
    /\ Engines = [e \in EngineNames |-> "ok"]
    /\ revision = "current"
    /\ ProxyIdle
    /\ SideIdle

NextAzure ==
    \/ \E r \in Requests : NewAzureOpenAIEngineWithConfig(r)
    \/ \E r \in Requests : isBackendAvailable(r)
    \/ \E r \in Requests : startHealthCheck(r)
    \/ \E r \in Requests : SelectLoop(r)
    \/ \E r \in Requests : selectLeastLoadedBackend(r)
    \/ \E r \in Requests : AddConnection(r)
    \/ \E r \in Requests : ModifyRequestReturns(r)
    \/ \E r \in Requests : RequestCompletes(r)

SpecAzure == InitAzure /\ [][NextAzure]_vars

\* The request has been dispatched to the backend and has not completed.
InFlight(r, b) == azure[r].pc \in {"rewrite", "upstream"} /\ azure[r].backend = b

\* C31: at every moment the connection counter of each backend equals the
\* number of requests in flight that were dispatched to it.  A counter
\* belongs to the BackendConfig of one engine, and an engine serves the one
\* request it was made for.
C31_AsStated ==
    \A r \in Requests : \A b \in Backends :
        azure[r].backends[b].Connections = Cardinality({q \in {r} : InFlight(q, b)})

\* C32: the backend a request is dispatched to was seen active by the
\* selection and has the least connections of the backends seen active; a
\* backend the health check marked inactive is not chosen.
C32_AsStated ==
    \A r \in Requests :
        azure[r].pc = "add" =>
            /\ azure[r].seen[azure[r].backend]
            /\ \A b \in Backends :
                  azure[r].seen[b] =>
                      azure[r].backends[azure[r].backend].Connections
                          <= azure[r].backends[b].Connections

\* The health-check goroutines that are alive.
HealthChecks == {r \in Requests : azure[r].probe.pc # "none"}

\* C37: the background tasks do not grow with the requests served: there is
\* no more than the one health-check goroutine of the one Azure engine the
\* configuration describes.
C37_AsStated == Cardinality(HealthChecks) <= 1

\* The selection is about to load the IsActive that the health-check
\* goroutine is about to store, and nothing orders the two.
Race(r, b) ==
    /\ azure[r].pc = "select" /\ azure[r].i = b
    /\ azure[r].probe.pc = "store" /\ azure[r].probe.b = b

\* C38: no two tasks access the same adapter state in a conflicting,
\* unsynchronized way.
C38_AsStated == \A r \in Requests : \A b \in Backends : ~Race(r, b)

(***************************************************************************)
(* The order of the handlers.  InitRouter wraps the handler of             *)
(* NewProxyHandler and the handler of NewHandler in RequireAuth;           *)
(* chainMiddlewares wraps the final handler in the middlewares, the last   *)
(* of the list first, so that the first of the list is entered first.  A   *)
(* handler is written as the sequence of the handlers nested in it,        *)
(* outermost first.  Of a request only what decides whether a handler      *)
(* answers it is kept: whether its key is valid, its body readable, its    *)
(* method OPTIONS, and what the selection of the engine makes of its path. *)
(***************************************************************************)
RECURSIVE wrap(_, _, _)
wrap(finalHandler, middlewares, i) ==
    IF i = 0 THEN finalHandler
    ELSE wrap(<<middlewares[i]>> \o finalHandler, middlewares, i - 1)

chainMiddlewares(finalHandler, middlewares) ==
    wrap(finalHandler, middlewares, Len(middlewares))

NewProxyHandler ==
    chainMiddlewares(<<"reverseProxy">>,
                     <<"auditMiddleware", "engineMiddleware", "loggingMiddleware",
                       "corsMiddleware">>)

NewHandler ==
    chainMiddlewares(<<"ServeHTTP">>,
                     <<"auditMiddleware", "loggingMiddleware", "corsMiddleware">>)

InitRouter(path) ==
    <<"RequireAuth">> \o (IF path = "native" THEN NewProxyHandler ELSE NewHandler)

RequestInfos ==
    [path : {"native", "compat"}, key : BOOLEAN, OPTIONS : BOOLEAN,
     broken : BOOLEAN, engine : {"ok", "unavailable", "forbidden"}]

\* The status with which the handler answers the request itself, 0 when
\* it calls next.  The final handlers always answer.
Answers(handler, r) ==
    CASE handler = "RequireAuth" -> IF r.key THEN 0 ELSE 401
      [] handler = "auditMiddleware" -> IF r.broken THEN 500 ELSE 0
      [] handler = "engineMiddleware" ->
            IF r.engine = "unavailable" THEN 404
            ELSE IF r.engine = "forbidden" THEN 403 ELSE 0
      [] handler = "loggingMiddleware" -> 0
      [] handler = "corsMiddleware" -> IF r.OPTIONS THEN 200 ELSE 0
      [] handler = "reverseProxy" -> 200
      [] handler = "ServeHTTP" -> IF r.engine = "ok" THEN 200 ELSE 400

\* The mux hands a request to the handler registered for its path.
MuxServe ==
    /\ chain.pc = "idle"
    /\ \E r \in RequestInfos :
          chain' = [pc |-> "run", r |-> r, handler |-> InitRouter(r.path),
                    ran |-> <<>>, status |-> 0, by |-> "none"]
    /\ UNCHANGED <<authVars, proxyVars, auditVars, xformVars, modelVars, cacheVars,
                   azureVars, lockVars>>

\* The outermost handler not yet entered runs: it answers, or it calls
\* next.ServeHTTP.
EnterHandler ==
    /\ chain.pc = "run"
    /\ LET h == Head(chain.handler)
           status == Answers(h, chain.r)
       IN  chain' = IF status # 0
                    THEN [chain EXCEPT !.pc = "answered", !.ran = Append(@, h),
                                       !.status = status, !.by = h]
                    ELSE [chain EXCEPT !.ran = Append(@, h), !.handler = Tail(@)]
    /\ UNCHANGED <<authVars, proxyVars, auditVars, xformVars, modelVars, cacheVars,
                   azureVars, lockVars>>

\* The handlers have returned.
Answered ==
    /\ chain.pc = "answered"
    /\ chain' = [pc |-> "idle", r |-> NoRequestInfo, handler |-> <<>>, ran |-> <<>>,
                 status |-> 0, by |-> "none"]
    /\ UNCHANGED <<authVars, proxyVars, auditVars, xformVars, modelVars, cacheVars,
                   azureVars, lockVars>>

InitChain == Quiescent /\ SideIdle

NextChain == MuxServe \/ EnterHandler \/ Answered

SpecChain == InitChain /\ [][NextChain]_vars

\* The place of a handler in the order cors, logging, audit, auth,
\* dispatcher, adapter.  The dispatcher is engineMiddleware on the native
\* paths and ServeHTTP, which calls selectEngine, on /openai-proxy/; the
\* adapter is reached in reverseProxy.
Stage(handler) ==
    CASE handler = "corsMiddleware" -> 1
      [] handler = "loggingMiddleware" -> 2
      [] handler = "auditMiddleware" -> 3
      [] handler = "RequireAuth" -> 4
      [] handler = "engineMiddleware" -> 5
      [] handler = "ServeHTTP" -> 5
      [] handler = "reverseProxy" -> 6

\* C36: the stages of a request run in the order cors, logging, audit,
\* auth, dispatcher, adapter: none is entered before one that precedes it
\* in this order, and once a stage has answered the request itself no
\* later stage is entered.
C36_AsStated ==
    /\ \A i, j \in DOMAIN chain.ran :
          i < j => Stage(chain.ran[i]) < Stage(chain.ran[j])
    /\ chain.by # "none" => chain.ran[Len(chain.ran)] = chain.by

(***************************************************************************)
(* The locking of the engine cache and of the model-list cache.  A         *)
(* goroutine calls GetEngine, InvalidateCache or ClearCache, which use     *)
(* ec.mutex, or ListModels, which uses cachedModelsLock; handleModels      *)
(* calls GetEngine and then ListModels.  What a call finds in the cache    *)
(* is left open: it hits or misses.  Of sync.RWMutex: Lock first takes     *)
(* the writers' mutex (writer is its holder), which makes readers that     *)
(* arrive wait, and then waits for the readers inside to leave; Unlock     *)
(* lets the readers that waited in, then the next writer.                  *)
(***************************************************************************)
Ops == {"GetEngine", "InvalidateCache", "ClearCache", "ListModels"}

MutexOf(op) == IF op = "ListModels" THEN "cachedModelsLock" ELSE "ec.mutex"

Idle == [op |-> "none", pc |-> "idle"]

\* A goroutine calls one of the four functions.  GetEngine and ListModels
\* begin with RLock, InvalidateCache and ClearCache with Lock.
Call(t) ==
    /\ tasks[t].op = "none"
    /\ \E op \in Ops :
          tasks' = [tasks EXCEPT ![t] =
                       [op |-> op,
                        pc |-> IF op \in {"GetEngine", "ListModels"}
                               THEN "RLock" ELSE "Lock"]]
    /\ UNCHANGED rwmutex
    /\ UNCHANGED <<authVars, proxyVars, auditVars, xformVars, modelVars, cacheVars,
                   azureVars, chainVars>>

\* mutex.RLock(): it returns at once, or the goroutine waits for the
\* writer to unlock.
RLock(t) ==
    /\ tasks[t].pc = "RLock"
    /\ LET m == MutexOf(tasks[t].op) IN
       IF rwmutex[m].writer = 0
       THEN /\ rwmutex' = [rwmutex EXCEPT ![m].readers = @ \cup {t}]
            /\ tasks' = [tasks EXCEPT ![t].pc = "RLocked"]
       ELSE /\ rwmutex' = [rwmutex EXCEPT ![m].waiting = @ \cup {t}]
            /\ tasks' = [tasks EXCEPT ![t].pc = "RLockWait"]
    /\ UNCHANGED <<authVars, proxyVars, auditVars, xformVars, modelVars, cacheVars,
                   azureVars, chainVars>>

RUnlock_upgrades(t) ==
    /\ tasks[t].pc = "RLocked"
    /\ LET m == MutexOf(tasks[t].op) IN
       \E hit \in BOOLEAN :
          /\ rwmutex' = IF hit THEN [rwmutex EXCEPT ![m].readers = @ \ {t}] ELSE rwmutex
          /\ tasks' = [tasks EXCEPT ![t] = IF hit THEN Idle ELSE [@ EXCEPT !.pc = "Lock"]]
    /\ UNCHANGED <<authVars, proxyVars, auditVars, xformVars, modelVars, cacheVars,
                   azureVars, chainVars>>

\* The first look at the cache, under the read lock: on a hit the entry is
\* returned after RUnlock (deferred in ListModels); on a miss RUnlock is
\* called before Lock.
RUnlock(t) ==
    /\ tasks[t].pc = "RLocked"
    /\ LET m == MutexOf(tasks[t].op) IN
       \E hit \in BOOLEAN :
          /\ rwmutex' = [rwmutex EXCEPT ![m].readers = @ \ {t}]
          /\ tasks' = [tasks EXCEPT ![t] = IF hit THEN Idle ELSE [@ EXCEPT !.pc = "Lock"]]
    /\ UNCHANGED <<authVars, proxyVars, auditVars, xformVars, modelVars, cacheVars,
                   azureVars, chainVars>>

\* mutex.Lock() has the writers' mutex: readers that arrive from now on
\* wait.
Lock(t) ==
    /\ tasks[t].pc = "Lock"
    /\ rwmutex[MutexOf(tasks[t].op)].writer = 0
    /\ rwmutex' = [rwmutex EXCEPT ![MutexOf(tasks[t].op)].writer = t]
    /\ tasks' = [tasks EXCEPT ![t].pc = "Locking"]
    /\ UNCHANGED <<authVars, proxyVars, auditVars, xformVars, modelVars, cacheVars,
                   azureVars, chainVars>>

\* mutex.Lock() returns: the readers have left.
LockAcquired(t) ==
    /\ tasks[t].pc = "Locking"
    /\ rwmutex[MutexOf(tasks[t].op)].readers = {}
    /\ tasks' = [tasks EXCEPT ![t].pc = "Locked"]
    /\ UNCHANGED rwmutex
    /\ UNCHANGED <<authVars, proxyVars, auditVars, xformVars, modelVars, cacheVars,
                   azureVars, chainVars>>

\* The function returns and its deferred mutex.Unlock() runs: the readers
\* that waited are let in.
Unlock(t, m) ==
    /\ rwmutex' = [rwmutex EXCEPT ![m] =
                      [readers |-> rwmutex[m].waiting, writer |-> 0, waiting |-> {}]]
    /\ tasks' = [u \in Tasks |->
                    IF u = t THEN Idle
                    ELSE IF u \in rwmutex[m].waiting
                         THEN [tasks[u] EXCEPT !.pc = "RLocked"]
                         ELSE tasks[u]]

\* Under the write lock.  InvalidateCache deletes the expired entries and
\* ClearCache replaces the map, and they return.  GetEngine and ListModels
\* look at the cache again: on a hit they return, on a miss they go on to
\* createEngine or to the request for the model list, the lock held.
Locked(t) ==
    /\ tasks[t].pc = "Locked"
    /\ \E hit \in BOOLEAN :
          IF tasks[t].op \in {"InvalidateCache", "ClearCache"} \/ hit
          THEN Unlock(t, MutexOf(tasks[t].op))
          ELSE /\ tasks' = [tasks EXCEPT ![t].pc = "create"]
               /\ UNCHANGED rwmutex
    /\ UNCHANGED <<authVars, proxyVars, auditVars, xformVars, modelVars, cacheVars,
                   azureVars, chainVars>>

\* createEngine returns, with an adapter, which is stored, or with an
\* error, and GetEngine returns.
GetEngineReturns(t) ==
    /\ tasks[t].pc = "create"
    /\ tasks[t].op = "GetEngine"
    /\ Unlock(t, "ec.mutex")
    /\ UNCHANGED <<authVars, proxyVars, auditVars, xformVars, modelVars, cacheVars,
                   azureVars, chainVars>>

\* The provider has answered the request for the model list, or the
\* request has failed, and ListModels returns.
ListModelsReturns(t) ==
    /\ tasks[t].pc = "create"
    /\ tasks[t].op = "ListModels"
    /\ Unlock(t, "cachedModelsLock")
    /\ UNCHANGED <<authVars, proxyVars, auditVars, xformVars, modelVars, cacheVars,
                   azureVars, chainVars>>

InitLocks == Quiescent /\ SideIdle

NextLocks ==
    \/ \E t \in Tasks : Call(t)
    \/ \E t \in Tasks : RLock(t)
    \/ \E t \in Tasks : RUnlock(t)
    \/ \E t \in Tasks : Lock(t)
    \/ \E t \in Tasks : LockAcquired(t)
    \/ \E t \in Tasks : Locked(t)
    \/ \E t \in Tasks : GetEngineReturns(t)
    \/ \E t \in Tasks : ListModelsReturns(t)

SpecLocks == InitLocks /\ [][NextLocks]_vars

\* A goroutine that can run does run, and createEngine returns.  A
\* goroutine waiting for the writers' mutex gets it if it is free again
\* and again: sync.Mutex hands over to the longest waiter.  Nothing is
\* assumed of the provider answering the request for the model list.
LocksFairness ==
    \A t \in Tasks :
        /\ WF_vars(RLock(t))
        /\ WF_vars(RUnlock(t))
        /\ SF_vars(Lock(t))
        /\ WF_vars(LockAcquired(t))
        /\ WF_vars(Locked(t))
        /\ WF_vars(GetEngineReturns(t))

SpecLocksLive == SpecLocks /\ LocksFairness

\* The goroutine is inside the lock, as a reader or as the writer, or has
\* the writers' mutex.
Holds(t, m) == t \in rwmutex[m].readers \/ rwmutex[m].writer = t

\* A goroutine that is acquiring a lock holds no other lock and no part of
\* the same lock, and a goroutine that has returned holds none and waits
\* for none.
LockDiscipline ==
    \A t \in Tasks : \A m \in Mutexes :
        /\ tasks[t].pc \in {"RLock", "RLockWait", "Lock"} => ~Holds(t, m)
        /\ tasks[t].pc = "Locking" =>
              (Holds(t, m) => m = MutexOf(tasks[t].op)) /\ t \notin rwmutex[m].readers
        /\ tasks[t].pc = "idle" => ~Holds(t, m) /\ t \notin rwmutex[m].waiting

\* The goroutine can take its next step.
CanStep(t) ==
    LET m == rwmutex[MutexOf(tasks[t].op)] IN
    \/ tasks[t].pc \in {"RLock", "RLocked", "Locked", "create"}
    \/ tasks[t].pc = "Lock" /\ m.writer = 0
    \/ tasks[t].pc = "Locking" /\ m.readers = {}

\* Of the goroutines inside GetEngine, InvalidateCache or ClearCache, if
\* there are any, one can take a step.
CacheCallsProgress ==
    LET inside == {t \in Tasks : tasks[t].op \in Ops \ {"ListModels"}} IN
    inside # {} => \E t \in inside : CanStep(t)

\* C39: no interleaving of GetEngine, InvalidateCache, ClearCache and
\* ListModels deadlocks: no lock is held while another is acquired, every
\* lock is released on every return path, some call can always proceed,
\* and every call of GetEngine returns.
C39_NoDeadlock ==
    /\ [](LockDiscipline /\ CacheCallsProgress)
    /\ \A t \in Tasks : (tasks[t].op = "GetEngine") ~> (tasks[t].op = "none")

\* GetEngine holds ec.mutex in createEngine while a second call of
\* GetEngine waits in RLock.
C39_Witness ==
    \E t1, t2 \in Tasks :
        /\ tasks[t1] = [op |-> "GetEngine", pc |-> "create"]
        /\ tasks[t2] = [op |-> "GetEngine", pc |-> "RLockWait"]

====
